---- MODULE Spec2Model ----
(***************************************************************************)
(* Model of the MCP JSON-RPC dispatcher (src/src/mcp.ts) and of the order  *)
(* lookup with its retry loop (src/src/supabase.ts).                       *)
(*                                                                         *)
(* JavaScript values are records [t, v]: t is the typeof-like tag and v    *)
(* the text of the value as a sequence of one-character strings (order     *)
(* identifiers, numbers) or of text fragments (messages, method names).    *)
(* A substring test of the code is a test for a contiguous sub-sequence.   *)
(***************************************************************************)
EXTENDS Integers, Sequences, FiniteSets, TLC

----------------------------------------------------------------------------
(* Values *)

Str(s) == [t |-> "string", v |-> s]
Num(s) == [t |-> "number", v |-> s]
Null == [t |-> "null", v |-> <<>>]
Undefined == [t |-> "undefined", v |-> <<>>]
Obj == [t |-> "object", v |-> <<>>]
Bool(s) == [t |-> "boolean", v |-> s]
\* a Date object: v is its ISO timestamp, <<>> for an Invalid Date
DateObject(iso) == [t |-> "date", v |-> iso]
NaN == [t |-> "number", v |-> <<"NaN">>]

\* String(x) of a string or a number
Text(val) == val.v

\* JavaScript truthiness of a scalar
Truthy(val) ==
    CASE val.t = "string" -> val.v # <<>>
      [] val.t = "number" -> val.v # <<"0">> /\ val.v # <<"NaN">>
      [] val.t = "boolean" -> val.v = <<"true">>
      [] val.t \in {"object", "date"} -> TRUE
      [] OTHER -> FALSE

\* needle occurs in hay as a contiguous sub-sequence (String.prototype.includes)
Includes(hay, needle) ==
    \E i \in 0..(Len(hay) - Len(needle)) :
        \A j \in 1..Len(needle) : hay[i + j] = needle[j]

Digits == {"0", "1", "2", "3", "4", "5", "6", "7", "8", "9"}
Whitespace == {" "}

RECURSIVE SkipWhitespace(_)
SkipWhitespace(s) ==
    IF s # <<>> /\ Head(s) \in Whitespace THEN SkipWhitespace(Tail(s)) ELSE s

RECURSIVE DigitPrefix(_)
DigitPrefix(s) ==
    IF s # <<>> /\ Head(s) \in Digits
    THEN <<Head(s)>> \o DigitPrefix(Tail(s))
    ELSE <<>>

RECURSIVE StripZeros(_)
StripZeros(d) ==
    IF Len(d) > 1 /\ Head(d) = "0" THEN StripZeros(Tail(d)) ELSE d

\* parseInt(s, 10): leading whitespace is skipped, an optional sign is read,
\* then the longest run of digits; what follows the digits is ignored.
\* The result is the number in its String() form, or NaN.
ParseInt(s) ==
    LET a == SkipWhitespace(s)
        neg == a # <<>> /\ Head(a) = "-"
        b == IF a # <<>> /\ Head(a) \in {"-", "+"} THEN Tail(a) ELSE a
        d == StripZeros(DigitPrefix(b))
    IN  IF d = <<>> THEN NaN
        ELSE IF neg /\ d # <<"0">> THEN Num(<<"-">> \o d)
        ELSE Num(d)

\* queryOrderId of lookupOrder
QueryOrderId(orderId) ==
    LET numericOrderId == ParseInt(orderId)
    IN  IF numericOrderId # NaN THEN numericOrderId ELSE Str(orderId)

----------------------------------------------------------------------------
(* JSON-RPC error codes *)

ParseError == -32700
InvalidRequest == -32600
MethodNotFound == -32601
InvalidParams == -32602
InternalError == -32603
OrderNotFound == -32004

----------------------------------------------------------------------------
(* The inputs: order identifiers, the store, the data source's failures *)

IdTR1 == <<"T", "R", "-", "1">>
Id12 == <<"1", "2">>
Id12a == <<"1", "2", "a">>
Id0 == <<"0">>
Id012 == <<"0", "1", "2">>
IdEmpty == <<>>

\* the strings a caller sends as order_id
OrderIdStrings == {IdEmpty, IdTR1, Id12, Id12a, Id0, Id012}

\* the columns lookupOrder reads from a raw record
Columns ==
    {"order_id", "status", "order_status", "eta", "estimated_delivery_date",
     "carrier", "delivery_partner", "tracking_number", "tracking_id", "tracking",
     "last_update", "updated_at", "order_date", "created_at", "issue_flag",
     "issue_type", "notes", "order_notes", "customer_name", "customer_phone",
     "product_id", "product_name", "category", "delivery_address",
     "payment_method", "return_eligible", "refund_amount"}

\* a raw record with no column at all
NoRow == [c \in Columns |-> Undefined]

\* a raw record of the store; order_id is text or (int8 column) a number
Row(orderId) == [NoRow EXCEPT !.order_id = orderId]

\* status texts, as characters
TxtShipped == <<"S", "h", "i", "p", "p", "e", "d">>
TxtDelivered == <<"D", "e", "l", "i", "v", "e", "r", "e", "d">>
TxtPending == <<"P", "e", "n", "d", "i", "n", "g">>
TxtUnshipped == <<"U", "n", "s", "h", "i", "p", "p", "e", "d">>

\* date texts
DateOnly == <<"2025-12-28">>
DateTimeUtc == <<"2025-12-23T10:30:00Z">>
DateTimeOffset == <<"2025-12-28T23:30:00-05:00">>
EpochMs == <<"1766880000000">>

TxtReturnShipping == <<"R", "e", "t", "u", "r", "n", " ", "s", "h", "i", "p", "p", "i", "n", "g">>
TxtOnHold == <<"o", "n", " ", "h", "o", "l", "d">>
TxtCancelled == <<"C", "a", "n", "c", "e", "l", "l", "e", "d">>
TxtDeliveryProcess == <<"D", "e", "l", "i", "v", "e", "r", "y", " ", "i", "n", " ", "p", "r", "o", "c", "e", "s", "s">>

DateGarbage == <<"next week">>
EpochOutOfRange == <<"1e+21">>
ValidDate == DateObject(<<"2025-12-30", "T", "08:15:00.000Z">>)
InvalidDate == DateObject(<<>>)

\* identifier, status and issue columns of both schema generations, present,
\* empty and absent
IdentityRecords ==
    {[NoRow EXCEPT !.order_id = i, !.status = st, !.order_status = os,
                   !.issue_flag = fl, !.issue_type = ty, !.notes = nt] :
        i \in {Str(IdTR1), Num(Id0), Null, Undefined},
        st \in {Undefined, Null, Str(TxtShipped), Str(TxtPending), Str(TxtUnshipped)},
        os \in {Undefined, Str(TxtDelivered)},
        fl \in {Undefined, Str(<<>>), Str(<<"damaged">>)},
        ty \in {Undefined, Str(<<"late">>)},
        nt \in {Undefined, Str(<<"Leave at door">>)}}

\* status texts of one family, of several families and of none
StatusTexts ==
    {Str(TxtShipped), Str(TxtDelivered), Str(TxtPending), Str(TxtUnshipped),
     Str(TxtReturnShipping), Str(TxtOnHold), Str(TxtCancelled),
     Str(TxtDeliveryProcess), Num(<<"5">>)}

StatusRecords ==
    {[Row(Str(IdTR1)) EXCEPT !.status = st, !.order_status = os] :
        st \in StatusTexts \cup {Undefined, Null, Str(<<>>)},
        os \in StatusTexts \cup {Undefined, Null}}

\* the overlapping columns of delivery, tracking and notes
PrecedenceRecords ==
    {[Row(Str(IdTR1)) EXCEPT
        !.eta = e, !.estimated_delivery_date = ed, !.carrier = c,
        !.delivery_partner = dp, !.tracking_number = tn, !.tracking_id = ti,
        !.tracking = tr, !.notes = nt, !.order_notes = ont] :
        e \in {Undefined, Str(DateOnly), Str(<<>>)},
        ed \in {Undefined, Str(DateTimeOffset)},
        c \in {Undefined, Str(<<"Yurtici Kargo">>), Str(<<>>)},
        dp \in {Undefined, Str(<<"Aras Kargo">>)},
        tn \in {Undefined, Null, Str(<<>>), Num(<<"0">>), Str(<<"123456789">>)},
        ti \in {Undefined, Str(<<"T-77">>)},
        tr \in {Undefined, Str(<<"T-88">>)},
        nt \in {Undefined, Str(<<"Leave at door">>)},
        ont \in {Undefined, Str(<<"Fragile">>)}}

\* only the columns of the existing schema
LegacyRecords ==
    {[Row(Str(IdTR1)) EXCEPT
        !.order_status = os, !.estimated_delivery_date = ed, !.delivery_partner = dp] :
        os \in StatusTexts,
        ed \in {Str(DateOnly), Str(DateTimeOffset), Str(DateGarbage), Num(EpochMs)},
        dp \in {Str(<<"Aras Kargo">>), Num(<<"7">>)}}

\* the timestamp columns, holding what JSON can carry
TimestampRecords ==
    {[Row(Str(IdTR1)) EXCEPT
        !.last_update = lu, !.updated_at = ua, !.order_date = od, !.created_at = ca] :
        lu \in {Undefined, Null, Str(<<>>), Str(DateTimeUtc), Str(DateGarbage),
                Bool(<<"true">>), Num(EpochMs), Num(EpochOutOfRange)},
        ua \in {Undefined, Str(DateOnly), Str(DateGarbage)},
        od \in {Undefined, Str(DateTimeOffset)},
        ca \in {Undefined, Str(DateTimeUtc)}}

\* what toDateStr accepts: a string, a Date object, a numeric epoch
DateValues ==
    {Undefined, Null, Str(DateOnly), Str(DateTimeOffset), Str(DateGarbage),
     ValidDate, InvalidDate, Num(EpochMs), Num(EpochOutOfRange), Bool(<<"true">>)}

DateRecords ==
    {[Row(Str(IdTR1)) EXCEPT !.eta = e, !.estimated_delivery_date = ed] :
        e \in DateValues, ed \in DateValues}

\* the optional descriptive columns
OptionalRecords ==
    {[Row(Str(IdTR1)) EXCEPT
        !.customer_name = cn, !.product_id = pid, !.payment_method = pm,
        !.order_date = od, !.return_eligible = re, !.refund_amount = ra] :
        cn \in {Undefined, Null, Str(<<"Ayse">>)},
        pid \in {Undefined, Null, Num(<<"7">>)},
        pm \in {Undefined, Str(<<"card">>)},
        od \in {Undefined, Null, Str(DateTimeUtc)},
        re \in {Undefined, Null, Bool(<<"true">>), Bool(<<"false">>)},
        ra \in {Undefined, Null, Num(<<"0">>), Num(<<"25">>)}}

\* raw records a data source may answer with
RawRecords ==
    IdentityRecords \cup StatusRecords \cup PrecedenceRecords \cup LegacyRecords
    \cup TimestampRecords \cup DateRecords \cup OptionalRecords

\* the rows of the two schema generations
RowTR1 ==
    [Row(Str(IdTR1)) EXCEPT
        !.status = Str(TxtShipped), !.eta = Str(DateOnly),
        !.carrier = Str(<<"Yurtici Kargo">>), !.tracking_number = Str(<<"123456789">>),
        !.last_update = Str(DateTimeUtc), !.notes = Str(<<"Out for delivery">>)]
Row12 ==
    [Row(Num(Id12)) EXCEPT
        !.order_status = Str(TxtPending), !.estimated_delivery_date = Str(DateTimeOffset),
        !.delivery_partner = Str(<<"Aras Kargo">>), !.issue_type = Str(<<"damaged">>),
        !.return_eligible = Null, !.refund_amount = Null]

\* the rows a store may hold
StoreRows == {RowTR1, Row12, Row(Num(Id0)), Row(Str(Id012))}

\* .eq("order_id", key): the key travels as text in the query string, so a
\* row matches when the text of its order_id is the text of the key
Matching(rows, key) == {r \in rows : Text(r.order_id) = Text(key)}

\* a failure of the data source: an error value of the query result
\* (message, code) or a thrown exception (message, name)
Failure(message, code, name) ==
    [present |-> TRUE, message |-> message, code |-> code, name |-> name]
NoFailure == [present |-> FALSE, message |-> <<>>, code |-> "", name |-> ""]

SupabaseUrl == "https://project.supabase.co"

MsgFetchFailed == <<"TypeError: ", "fetch failed">>
MsgTimeout ==
    <<"Network request ", "timeout", ": Unable to reach Supabase at ", SupabaseUrl>>
MsgNetwork ==
    <<"Network connection failed: Unable to connect to Supabase. ",
      "Please check your SUPABASE_URL (set) and ", "network", " connectivity.">>
MsgAborted == <<"This operation was aborted">>
MsgPermission == <<"permission denied for table orders_trendyol">>
MsgNoRows == <<"JSON object requested, multiple (or no) rows returned">>
MsgConfig == <<"SUPABASE_URL environment variable is required">>

\* the not-found sentinel of .single()
Sentinel == Failure(MsgNoRows, "PGRST116", "")

\* error values a query result may carry (other than the sentinel)
ErrorValues ==
    {Failure(MsgFetchFailed, "", ""), Failure(MsgTimeout, "", ""),
     Failure(MsgNetwork, "", ""), Failure(MsgPermission, "42501", "")}

\* exceptions the awaited query may throw
Exceptions ==
    {Failure(<<"fetch failed">>, "", "TypeError"),
     Failure(MsgNetwork, "", "Error"),
     Failure(MsgAborted, "", "AbortError"),
     Failure(MsgPermission, "", "Error")}

\* the result of one query: data and error of the awaited result
NoData == [present |-> FALSE, row |-> NoRow]
Data(r) == [present |-> TRUE, row |-> r]

----------------------------------------------------------------------------
(* Request bodies *)

NoArgs == [t |-> "undefined", order_id |-> Undefined]
Args(orderId) == [t |-> "object", order_id |-> orderId]
NoParams == [t |-> "undefined", name |-> Undefined, arguments |-> NoArgs]
Params(name, arguments) == [t |-> "object", name |-> name, arguments |-> arguments]

LookupTool == Str(<<"lookup_order">>)

ArgsVals ==
    {NoArgs, [t |-> "string", order_id |-> Undefined], Args(Undefined), Args(Num(Id12))}
    \cup {Args(Str(s)) : s \in OrderIdStrings}

ParamsVals ==
    {NoParams, [t |-> "string", name |-> Undefined, arguments |-> NoArgs]}
    \cup {Params(n, a) : n \in {LookupTool, Str(<<"cancel_order">>), Undefined, Num(<<"7">>)},
                         a \in ArgsVals}

JsonRpcVals == {Str(<<"2.0">>), Str(<<"1.0">>), Undefined}
MethodVals ==
    {Str(<<"initialize">>), Str(<<"ping">>), Str(<<"tools/list">>),
     Str(<<"tools/call">>), Str(<<"orders/delete">>), Undefined, Num(<<"7">>)}
IdVals == {Str(<<"a">>), Num(<<"1">>), Null, Undefined, Obj}

Body(t, jsonrpc, method, id, params) ==
    [t |-> t, jsonrpc |-> jsonrpc, method |-> method, id |-> id, params |-> params]

\* bodies that are not objects have no properties
ScalarBodies ==
    {Body(t, Undefined, Undefined, Undefined, NoParams) : t \in {"string", "null", "number"}}

EnvelopeBodies ==
    {Body("object", j, m, i, p) :
        j \in JsonRpcVals, m \in MethodVals, i \in IdVals,
        p \in {NoParams, Params(LookupTool, Args(Str(Id12)))}}

ToolCallBodies ==
    {Body("object", Str(<<"2.0">>), Str(<<"tools/call">>), i, p) :
        i \in {Str(<<"a">>), Num(<<"1">>), Null}, p \in ParamsVals}

Bodies == ScalarBodies \cup EnvelopeBodies \cup ToolCallBodies
NoBody == Body("undefined", Undefined, Undefined, Undefined, NoParams)

----------------------------------------------------------------------------
(* Field normalizer and formatter (supabase.ts) *)

VARIABLE now    \* the clock: new Date().toISOString()

\* ISO timestamps are <<date, "T", time>>
Iso(date, time) == <<date, "T", time>>
Time1 == Iso("2026-01-01", "09:00:00.000Z")
Time2 == Iso("2026-01-01", "09:00:01.000Z")
Times == {Time1, Time2}

Lower == <<"a","b","c","d","e","f","g","h","i","j","k","l","m","n","o","p","q","r","s","t","u","v","w","x","y","z">>
Upper == <<"A","B","C","D","E","F","G","H","I","J","K","L","M","N","O","P","Q","R","S","T","U","V","W","X","Y","Z">>

UpperChar(c) ==
    IF \E i \in 1..Len(Lower) : Lower[i] = c
    THEN Upper[CHOOSE i \in 1..Len(Lower) : Lower[i] = c]
    ELSE c

\* String.prototype.toUpperCase
ToUpperCase(s) == [i \in 1..Len(s) |-> UpperChar(s[i])]

SHIPPED == <<"S", "H", "I", "P", "P", "E", "D">>
SHIPPING == <<"S", "H", "I", "P", "P", "I", "N", "G">>
DELIVERED == <<"D", "E", "L", "I", "V", "E", "R", "E", "D">>
DELIVERY == <<"D", "E", "L", "I", "V", "E", "R", "Y">>
PROCESSING == <<"P", "R", "O", "C", "E", "S", "S", "I", "N", "G">>
PROCESS == <<"P", "R", "O", "C", "E", "S", "S">>
CANCELED == <<"C", "A", "N", "C", "E", "L", "E", "D">>
CANCELLED == <<"C", "A", "N", "C", "E", "L", "L", "E", "D">>
RETURNED == <<"R", "E", "T", "U", "R", "N", "E", "D">>
RETURN == <<"R", "E", "T", "U", "R", "N">>
HOLD == <<"H", "O", "L", "D">>
ONHOLD == <<"O", "N", "_", "H", "O", "L", "D">>

\* the OrderStatus type
OrderStatus == {PROCESSING, SHIPPED, DELIVERED, CANCELED, RETURNED, ONHOLD}

\* a || b
Or(a, b) == IF Truthy(a) THEN a ELSE b

\* mutant: the RETURNED family is tested before the others
MapStatusReturnedFirst(statusText) ==
    IF Truthy(statusText)
    THEN LET upperStatus == ToUpperCase(Text(statusText))
         IN  IF Includes(upperStatus, RETURNED) \/ Includes(upperStatus, RETURN)
             THEN RETURNED
             ELSE IF Includes(upperStatus, SHIPPED) \/ Includes(upperStatus, SHIPPING)
             THEN SHIPPED
             ELSE IF Includes(upperStatus, DELIVERED) \/ Includes(upperStatus, DELIVERY)
             THEN DELIVERED
             ELSE IF Includes(upperStatus, PROCESSING) \/ Includes(upperStatus, PROCESS)
             THEN PROCESSING
             ELSE IF Includes(upperStatus, CANCELED) \/ Includes(upperStatus, CANCELLED)
             THEN CANCELED
             ELSE IF Includes(upperStatus, HOLD) \/ Includes(upperStatus, ONHOLD)
             THEN ONHOLD
             ELSE upperStatus
    ELSE PROCESSING

\* mappedStatus
MapStatus(statusValue) ==
    IF Truthy(statusValue)
    THEN LET upperStatus == ToUpperCase(Text(statusValue))
         IN  IF Includes(upperStatus, SHIPPED) \/ Includes(upperStatus, SHIPPING)
             THEN SHIPPED
             ELSE IF Includes(upperStatus, DELIVERED) \/ Includes(upperStatus, DELIVERY)
             THEN DELIVERED
             ELSE IF Includes(upperStatus, PROCESSING) \/ Includes(upperStatus, PROCESS)
             THEN PROCESSING
             ELSE IF Includes(upperStatus, CANCELED) \/ Includes(upperStatus, CANCELLED)
             THEN CANCELED
             ELSE IF Includes(upperStatus, RETURNED) \/ Includes(upperStatus, RETURN)
             THEN RETURNED
             ELSE IF Includes(upperStatus, HOLD) \/ Includes(upperStatus, ONHOLD)
             THEN ONHOLD
             ELSE upperStatus
    ELSE PROCESSING

\* new Date(text).toISOString() for the date texts of the model; <<>> stands
\* for an invalid date
DateOfString(v) ==
    CASE v = DateOnly -> Iso("2025-12-28", "00:00:00.000Z")
      [] v = DateTimeUtc -> Iso("2025-12-23", "10:30:00.000Z")
      [] v = DateTimeOffset -> Iso("2025-12-29", "04:30:00.000Z")
      [] v \in Times -> v
      [] OTHER -> <<>>

\* new Date(number).toISOString(); <<>> stands for the RangeError it throws
DateOfNumber(v) ==
    CASE v = EpochMs -> Iso("2025-12-28", "00:00:00.000Z")
      [] OTHER -> <<>>

\* toStr
toStr(val) == IF Truthy(val) THEN Str(Text(val)) ELSE Null

\* what a coercion helper yields when Date.prototype.toISOString throws
\* outside a try block
RangeError == [t |-> "throw", v |-> <<"Invalid time value">>]

\* toDateStr: the part of the ISO timestamp before "T", or null
toDateStr(val) ==
    IF ~Truthy(val) THEN Null
    ELSE IF val.t = "string"
    THEN IF DateOfString(val.v) # <<>> THEN Str(<<DateOfString(val.v)[1]>>) ELSE Null
    ELSE IF val.t = "date"
    THEN IF val.v # <<>> THEN Str(<<val.v[1]>>) ELSE RangeError
    ELSE IF val.t = "number"
    THEN IF DateOfNumber(val.v) # <<>> THEN Str(<<DateOfNumber(val.v)[1]>>) ELSE Null
    ELSE Null

\* mutant: a value that denotes no instant is passed on as null
toTimestampStrOrNull(val, clock) ==
    IF ~Truthy(val) THEN Str(clock)
    ELSE IF val.t = "string"
    THEN IF DateOfString(val.v) # <<>> THEN Str(DateOfString(val.v)) ELSE Null
    ELSE IF val.t = "date"
    THEN IF val.v # <<>> THEN Str(val.v) ELSE RangeError
    ELSE IF val.t = "number"
    THEN IF DateOfNumber(val.v) # <<>> THEN Str(DateOfNumber(val.v)) ELSE Null
    ELSE Null

\* toTimestampStr: the ISO timestamp, or the current time; clock is what
\* new Date().toISOString() reads
toTimestampStr(val, clock) ==
    IF ~Truthy(val) THEN Str(clock)
    ELSE IF val.t = "string"
    THEN IF DateOfString(val.v) # <<>> THEN Str(DateOfString(val.v)) ELSE Str(clock)
    ELSE IF val.t = "date"
    THEN IF val.v # <<>> THEN Str(val.v) ELSE RangeError
    ELSE IF val.t = "number"
    THEN IF DateOfNumber(val.v) # <<>> THEN Str(DateOfNumber(val.v)) ELSE Str(clock)
    ELSE Str(clock)

\* Boolean(x) and Number(x) of a scalar
ToBoolean(val) == Bool(IF Truthy(val) THEN <<"true">> ELSE <<"false">>)
ToNumber(val) ==
    CASE val.t = "number" -> val
      [] val.t = "null" -> Num(<<"0">>)
      [] val.t = "boolean" -> Num(IF val.v = <<"true">> THEN <<"1">> ELSE <<"0">>)
      [] val.t = "string" ->
            IF val.v = <<>> THEN Num(<<"0">>)
            ELSE IF \A i \in 1..Len(val.v) : val.v[i] \in Digits THEN Num(StripZeros(val.v))
            ELSE NaN
      [] OTHER -> NaN

\* the fields of LookupOrderResponse
OrderFields ==
    {"order_id", "status", "order_status", "customer_name", "customer_phone",
     "product_id", "product_name", "category", "eta", "estimated_delivery_date",
     "carrier", "delivery_partner", "delivery_address", "tracking_number",
     "payment_method", "order_date", "created_at", "last_update", "issue_flag",
     "issue_type", "return_eligible", "refund_amount", "notes"}

NoOrder == [f \in OrderFields |-> Undefined]

\* mutant: the carrier is read from delivery_partner first
carrierValueLegacyFirst(rawData) == Or(rawData.delivery_partner, rawData.carrier)

\* mutant: eta is read from the eta column only
etaValueNewOnly(rawData) == rawData.eta

\* "Map other fields - support both new and existing column names": the
\* constants statusValue, eta, carrier, tracking_number, last_update,
\* issue_flag and notes
statusValue(rawData) == Or(rawData.status, rawData.order_status)
etaValue(rawData) == Or(rawData.eta, rawData.estimated_delivery_date)
carrierValue(rawData) == Or(rawData.carrier, rawData.delivery_partner)
trackingNumberValue(rawData) ==
    Or(Or(rawData.tracking_number, rawData.tracking_id), rawData.tracking)
lastUpdateValue(rawData, clock) ==
    Or(Or(Or(Or(rawData.last_update, rawData.updated_at), rawData.order_date),
          rawData.created_at), Str(clock))
issueFlagValue(rawData) == Or(rawData.issue_flag, rawData.issue_type)
notesValue(rawData) == Or(rawData.notes, rawData.order_notes)

\* "Transform to response format with ALL available fields", at the clock
\* reading `clock`
Transform(rawData, clock) ==
    [order_id |-> Str(Text(rawData.order_id)),
     status |-> Str(MapStatus(statusValue(rawData))),
     order_status |-> toStr(rawData.order_status),
     customer_name |-> toStr(rawData.customer_name),
     customer_phone |-> toStr(rawData.customer_phone),
     product_id |-> toStr(rawData.product_id),
     product_name |-> toStr(rawData.product_name),
     category |-> toStr(rawData.category),
     eta |-> toDateStr(etaValue(rawData)),
     estimated_delivery_date |-> toDateStr(rawData.estimated_delivery_date),
     carrier |-> toStr(carrierValue(rawData)),
     delivery_partner |-> toStr(rawData.delivery_partner),
     delivery_address |-> toStr(rawData.delivery_address),
     tracking_number |-> toStr(trackingNumberValue(rawData)),
     payment_method |-> toStr(rawData.payment_method),
     order_date |-> toTimestampStr(rawData.order_date, clock),
     created_at |-> toTimestampStr(rawData.created_at, clock),
     last_update |-> toTimestampStr(lastUpdateValue(rawData, clock), clock),
     issue_flag |-> toStr(issueFlagValue(rawData)),
     issue_type |-> toStr(rawData.issue_type),
     return_eligible |->
        IF rawData.return_eligible # Undefined
        THEN ToBoolean(rawData.return_eligible) ELSE Null,
     refund_amount |->
        IF rawData.refund_amount # Undefined
        THEN ToNumber(rawData.refund_amount) ELSE Null,
     notes |-> toStr(notesValue(rawData))]

\* the fields a coercion helper that can throw fills
DateFields ==
    {"eta", "estimated_delivery_date", "order_date", "created_at", "last_update"}

\* building the response threw
TransformThrows(rawData, clock) ==
    \E f \in DateFields : Transform(rawData, clock)[f] = RangeError

\* Date.prototype.toLocaleDateString / toLocaleString("en-US", ...) of the
\* date a text parses to; neither throws
ToLocaleDateString(v) == <<"toLocaleDateString(">> \o v \o <<")">>
ToLocaleString(v) == <<"toLocaleString(">> \o v \o <<")">>

\* Number.prototype.toFixed(2), for the whole numbers of the model
ToFixed2(n) == IF n = NaN THEN <<"NaN">> ELSE n.v \o <<".00">>

\* mutant: every clause is pushed, whatever its condition
OptAlways(cond, part) == <<part>>

Opt(cond, part) == IF cond THEN <<part>> ELSE <<>>

RECURSIVE Join(_)
\* parts.join(". ")
Join(parts) ==
    IF parts = <<>> THEN <<>>
    ELSE IF Len(parts) = 1 THEN parts[1]
    ELSE parts[1] \o <<". ">> \o Join(Tail(parts))

\* formatOrderForAgent
formatOrderForAgent(order) ==
    LET etaDate == Or(order.eta, order.estimated_delivery_date)
        carrier == Or(order.carrier, order.delivery_partner)
        issueInfo == Or(order.issue_flag, order.issue_type)
        parts ==
            <<(<<"Order ">> \o Text(order.order_id) \o <<" is ">> \o Text(order.status))>>
            \o Opt(Truthy(order.customer_name),
                   <<"Customer: ">> \o Text(order.customer_name))
            \o Opt(Truthy(order.customer_phone),
                   <<"Phone: ">> \o Text(order.customer_phone))
            \o Opt(Truthy(order.product_name),
                   <<"Product: ">> \o Text(order.product_name))
            \o Opt(Truthy(order.product_id),
                   <<"Product ID: ">> \o Text(order.product_id))
            \o Opt(Truthy(order.category), <<"Category: ">> \o Text(order.category))
            \o Opt(Truthy(etaDate),
                   <<"Estimated delivery: ">> \o ToLocaleDateString(Text(etaDate)))
            \o (IF Truthy(order.tracking_number)
                THEN IF Truthy(carrier)
                     THEN <<(<<"Tracking: ">> \o Text(order.tracking_number)
                             \o <<" via ">> \o Text(carrier))>>
                     ELSE <<(<<"Tracking number: ">> \o Text(order.tracking_number))>>
                ELSE Opt(Truthy(carrier), <<"Carrier: ">> \o Text(carrier)))
            \o Opt(Truthy(order.delivery_address),
                   <<"Delivery address: ">> \o Text(order.delivery_address))
            \o Opt(Truthy(order.payment_method),
                   <<"Payment method: ">> \o Text(order.payment_method))
            \o Opt(Truthy(order.order_date),
                   <<"Order date: ">> \o ToLocaleDateString(Text(order.order_date)))
            \o Opt(Truthy(issueInfo), <<"Issue: ">> \o Text(issueInfo))
            \o Opt(order.return_eligible \notin {Null, Undefined},
                   <<"Return eligible: ",
                     IF Truthy(order.return_eligible) THEN "Yes" ELSE "No">>)
            \o Opt(order.refund_amount \notin {Null, Undefined},
                   <<"Refund amount: $">> \o ToFixed2(order.refund_amount))
            \o Opt(Truthy(order.notes), <<"Notes: ">> \o Text(order.notes))
            \o <<(<<"Last updated: ">> \o ToLocaleString(Text(order.last_update)))>>
    IN  Join(parts) \o <<".">>

----------------------------------------------------------------------------
(* Response envelopes (mcp.ts) *)

\* the keys the structured object always has
CoreKeys == {"order_id", "status", "eta", "carrier", "tracking_number", "last_update"}

NoStructured ==
    [keys |-> {}, order_id |-> Undefined, status |-> Undefined, eta |-> Undefined,
     carrier |-> Undefined, tracking_number |-> Undefined, last_update |-> Undefined,
     issue_flag |-> Undefined, notes |-> Undefined]

\* mutant: issue_flag and notes are always keys of the structured object
StructuredAllKeys(order) ==
    [keys |-> CoreKeys \cup {"issue_flag", "notes"},
     order_id |-> order.order_id, status |-> order.status, eta |-> order.eta,
     carrier |-> order.carrier, tracking_number |-> order.tracking_number,
     last_update |-> order.last_update,
     issue_flag |-> order.issue_flag, notes |-> order.notes]

\* the structured object of a tool result
Structured(order) ==
    [keys |-> CoreKeys
              \cup (IF Truthy(order.issue_flag) THEN {"issue_flag"} ELSE {})
              \cup (IF Truthy(order.notes) THEN {"notes"} ELSE {}),
     order_id |-> order.order_id, status |-> order.status, eta |-> order.eta,
     carrier |-> order.carrier, tracking_number |-> order.tracking_number,
     last_update |-> order.last_update,
     issue_flag |-> IF Truthy(order.issue_flag) THEN order.issue_flag ELSE Undefined,
     notes |-> IF Truthy(order.notes) THEN order.notes ELSE Undefined]

\* a result: content is the text blocks, structured the structured object
Result(tag, content, structured) ==
    [tag |-> tag, content |-> content, structured |-> structured]
NoResult == Result("none", <<>>, NoStructured)
ErrorObject(code, message, hasData, data) ==
    [code |-> code, message |-> message, hasData |-> hasData, data |-> data]
NoErrorObject == ErrorObject(0, <<>>, FALSE, <<>>)

\* keys is the set of the envelope's own properties
NoResponse ==
    [keys |-> {}, jsonrpc |-> "", id |-> Undefined, result |-> NoResult,
     error |-> NoErrorObject]

createSuccessResponse(id, result) ==
    [keys |-> {"jsonrpc", "id", "result"}, jsonrpc |-> "2.0", id |-> id,
     result |-> result, error |-> NoErrorObject]

\* mutant: the error envelope also carries a result property
createErrorResponseWithResult(id, code, message, hasData, data) ==
    [keys |-> {"jsonrpc", "id", "result", "error"}, jsonrpc |-> "2.0", id |-> id,
     result |-> NoResult,
     error |-> ErrorObject(code, message, hasData, IF hasData THEN data ELSE <<>>)]

\* data is spread into the error object only when it is not undefined
createErrorResponse(id, code, message, hasData, data) ==
    [keys |-> {"jsonrpc", "id", "error"}, jsonrpc |-> "2.0", id |-> id,
     result |-> NoResult,
     error |-> ErrorObject(code, message, hasData, IF hasData THEN data ELSE <<>>)]

\* mutant: the id of the request is not validated
validateJsonRpcRequestAnyId(body) ==
    /\ body.t = "object"
    /\ body.jsonrpc = Str(<<"2.0">>)
    /\ body.method.t = "string"

validateJsonRpcRequest(body) ==
    /\ body.t = "object"
    /\ body.jsonrpc = Str(<<"2.0">>)
    /\ body.method.t = "string"
    /\ body.id.t \in {"null", "string", "number"}

\* ToolCallParamsSchema: an object with a string name and a mapping arguments
ToolCallParamsValid(params) ==
    /\ params.t = "object"
    /\ params.name.t = "string"
    /\ params.arguments.t = "object"

\* mutant: order_id may be the empty string
LookupOrderArgumentsValidAnyLength(arguments) == arguments.order_id.t = "string"

\* LookupOrderArgumentsSchema: order_id is a string of at least one character
LookupOrderArgumentsValid(arguments) ==
    /\ arguments.order_id.t = "string"
    /\ Len(arguments.order_id.v) >= 1

ZodIssues == <<"zod issues">>

handleInitialize(id) == createSuccessResponse(id, Result("initialize", <<>>, NoStructured))
handlePing(id) == createSuccessResponse(id, Result("ping", <<>>, NoStructured))
handleToolsList(id) == createSuccessResponse(id, Result("tools/list", <<>>, NoStructured))

\* a function's completion: it returned a response, it threw, or (await) it
\* is suspended on lookupOrder
Returned(response) == [how |-> "returned", response |-> response, cause |-> <<>>]
Threw(cause) == [how |-> "threw", response |-> NoResponse, cause |-> cause]
Awaiting == [how |-> "await", response |-> NoResponse, cause |-> <<>>]

\* handleToolsCall up to the call of lookupOrder
handleToolsCallEntry(id, params) ==
    IF ~ToolCallParamsValid(params)
    THEN Returned(createErrorResponse(id, InvalidParams,
            <<"Invalid params: name and arguments are required">>, TRUE, ZodIssues))
    ELSE IF params.name = LookupTool
    THEN IF ~LookupOrderArgumentsValid(params.arguments)
         THEN Returned(createErrorResponse(id, InvalidParams,
                <<"Invalid arguments: order_id is required and must be a non-empty string">>,
                TRUE, ZodIssues))
         ELSE Awaiting
    ELSE Returned(createErrorResponse(id, InvalidParams,
            <<"Unknown tool: ">> \o params.name.v \o <<". Available tools: lookup_order">>,
            FALSE, <<>>))

\* the outcome of lookupOrder: an order, null, or a thrown Error(cause)
Found(order) == [kind |-> "found", order |-> order, cause |-> <<>>]
NotFound == [kind |-> "notfound", order |-> NoOrder, cause |-> <<>>]
Failed(cause) == [kind |-> "failed", order |-> NoOrder, cause |-> cause]
Pending == [kind |-> "pending", order |-> NoOrder, cause |-> <<>>]

\* mutant: the catch block answers with id null
handleToolsCallCatchNullId(id, cause) ==
    Returned(createErrorResponse(Null, InternalError,
        <<"Internal server error while looking up order">>, TRUE, cause))

\* the catch block of handleToolsCall
handleToolsCallCatch(id, cause) ==
    Returned(createErrorResponse(id, InternalError,
        <<"Internal server error while looking up order">>, TRUE, cause))

\* handleToolsCall from the return of lookupOrder on
handleToolsCallResume(id, order_id, out) ==
    CASE out.kind = "failed" -> handleToolsCallCatch(id, out.cause)
      [] out.kind = "notfound" ->
            Returned(createErrorResponse(id, OrderNotFound,
                <<"Order not found: ">> \o order_id, FALSE, <<>>))
      [] OTHER ->
            Returned(createSuccessResponse(id,
                Result("tools/call", <<formatOrderForAgent(out.order)>>,
                       Structured(out.order))))

\* the catch block of handleMcpRequest
handleMcpRequestCatch(id, cause) ==
    Returned(createErrorResponse(id, InternalError, <<"Internal server error">>,
        TRUE, cause))

\* mutant: the routing table lacks tools/list
handleMcpRequestEntryNoToolsList(body) ==
    IF ~validateJsonRpcRequest(body)
    THEN Returned(createErrorResponse(Null, InvalidRequest,
            <<"Invalid JSON-RPC 2.0 request. Must have jsonrpc: '2.0', method (string), and id (string|number|null)">>,
            FALSE, <<>>))
    ELSE CASE body.method.v = <<"initialize">> -> Returned(handleInitialize(body.id))
           [] body.method.v = <<"ping">> -> Returned(handlePing(body.id))
           [] body.method.v = <<"tools/call">> -> handleToolsCallEntry(body.id, body.params)
           [] OTHER -> Returned(createErrorResponse(body.id, MethodNotFound,
                            <<"Method not found: ">> \o body.method.v, FALSE, <<>>))

\* handleMcpRequest up to the first await
handleMcpRequestEntry(body) ==
    IF ~validateJsonRpcRequest(body)
    THEN Returned(createErrorResponse(Null, InvalidRequest,
            <<"Invalid JSON-RPC 2.0 request. Must have jsonrpc: '2.0', method (string), and id (string|number|null)">>,
            FALSE, <<>>))
    ELSE CASE body.method.v = <<"initialize">> -> Returned(handleInitialize(body.id))
           [] body.method.v = <<"ping">> -> Returned(handlePing(body.id))
           [] body.method.v = <<"tools/list">> -> Returned(handleToolsList(body.id))
           [] body.method.v = <<"tools/call">> -> handleToolsCallEntry(body.id, body.params)
           [] OTHER -> Returned(createErrorResponse(body.id, MethodNotFound,
                            <<"Method not found: ">> \o body.method.v, FALSE, <<>>))

\* handleMcpRequest from the return of handleToolsCall on: what it threw is
\* caught and becomes an envelope
handleMcpRequestResume(id, completion) ==
    IF completion.how = "threw"
    THEN handleMcpRequestCatch(id, completion.cause)
    ELSE completion

----------------------------------------------------------------------------
(* lookupOrder (supabase.ts): the retry loop and what follows it *)

\* bound of the model on the queries of one lookup (above the code's own)
MaxQueries == 5

\* the network test applied to the error value of a query result
IsNetworkError(error) ==
    \/ Includes(error.message, <<"fetch failed">>)
    \/ Includes(error.message, <<"ECONNREFUSED">>)
    \/ Includes(error.message, <<"timeout">>)
    \/ Includes(error.message, <<"network">>)

\* the network test applied to a caught exception
IsNetworkException(networkError) ==
    \/ Includes(networkError.message, <<"fetch failed">>)
    \/ Includes(networkError.message, <<"ECONNREFUSED">>)
    \/ Includes(networkError.message, <<"timeout">>)
    \/ networkError.name = "AbortError"
    \/ networkError.name = "TimeoutError"

\* "If successful or non-network error, break retry loop"
BreaksLoop(error) == ~error.present \/ error.code = "PGRST116"

\* mutant: a network error value is retried on the third attempt too
RetriesErrorUncapped(attempt, error) == IsNetworkError(error)

RetriesError(attempt, error) == attempt < 3 /\ IsNetworkError(error)
RetriesException(attempt, networkError) == attempt < 3 /\ IsNetworkException(networkError)

\* the loop test of for (attempt = 1; attempt <= 3; attempt++)
LoopContinues(attempt) == attempt <= 3

\* mutant: a retry does not count as an attempt
NextAttemptStuck(attempt) == attempt

\* attempt++ of the loop
NextAttempt(attempt) == attempt + 1

\* mutant: the same wait before every retry
BackoffMsFixed(attempt) == 1000

\* the wait started before a retry
BackoffMs(attempt) == 1000 * attempt

\* mutant: a record without status text is rejected like one without
\* identifier
NormalizeRequiringStatus(rawData) ==
    IF ~Truthy(rawData.order_id) \/ ~Truthy(statusValue(rawData))
    THEN Failed(<<"Invalid order data: missing order_id">>)
    ELSE IF TransformThrows(rawData, now) THEN Failed(RangeError.v)
    ELSE Found(Transform(rawData, now))

\* the required-field check and the transformation of the raw record, the
\* clock reading `clock`
NormalizeAt(rawData, clock) ==
    IF ~Truthy(rawData.order_id)
    THEN Failed(<<"Invalid order data: missing order_id">>)
    ELSE IF TransformThrows(rawData, clock) THEN Failed(RangeError.v)
    ELSE Found(Transform(rawData, clock))

\* the required-field check and the transformation of the raw record
Normalize(rawData) == NormalizeAt(rawData, now)

\* mutant: every error of the final result is taken for not-found
AfterLoopErrorAllNotFound(error) == NotFound

\* mutant: the sentinel is not recognised after the loop
AfterLoopErrorNoSentinel(error) ==
    IF \/ Includes(error.message, <<"fetch failed">>)
       \/ Includes(error.message, <<"ECONNREFUSED">>)
    THEN Failed(<<"Network connection failed: Unable to connect to Supabase database. ",
                  "Please verify SUPABASE_URL is correct and the database is accessible.">>)
    ELSE Failed(<<"Database query failed: ">> \o error.message)

\* if (error) { ... } after the loop
AfterLoopError(error) ==
    IF error.code = "PGRST116" THEN NotFound
    ELSE IF \/ Includes(error.message, <<"fetch failed">>)
            \/ Includes(error.message, <<"ECONNREFUSED">>)
    THEN Failed(<<"Network connection failed: Unable to connect to Supabase database. ",
                  "Please verify SUPABASE_URL is correct and the database is accessible.">>)
    ELSE Failed(<<"Database query failed: ">> \o error.message)

\* mutant: an earlier retried failure fails the lookup whatever the data
AfterRetriesFailedAnyData(lastError, data) == lastError.present

\* "Handle case where we got a network exception after retries"
AfterRetriesFailed(lastError, data) == lastError.present /\ ~data.present

\* mutant: the final result's error is not looked at
AfterLoopIgnoringError(data, error, lastError) ==
    IF ~data.present THEN NotFound ELSE Normalize(data.row)

\* lookupOrder from the end of the loop to its return or throw
AfterLoop(data, error, lastError) ==
    IF error.present THEN AfterLoopError(error)
    ELSE IF AfterRetriesFailed(lastError, data)
    THEN Failed(<<"Network connection failed after retries: ">> \o
                (IF lastError.message # <<>> THEN lastError.message
                 ELSE <<"Unable to connect to Supabase">>))
    ELSE IF ~data.present THEN NotFound
    ELSE Normalize(data.row)

\* .single() on the rows that match: one row, or the not-found sentinel
Single(rows) ==
    IF Cardinality(rows) = 1
    THEN [data |-> Data(CHOOSE r \in rows : TRUE), error |-> NoFailure]
    ELSE [data |-> NoData, error |-> Sentinel]

\* one entry of the history of a lookup's queries
Answer(kind, failure, row) == [kind |-> kind, failure |-> failure, row |-> row]

----------------------------------------------------------------------------
(* State *)

\* let supabaseClient: SupabaseClient | null = null
NoClient == 0

\* mutant: a client is made on every access
getSupabaseClientUncached(cached, made) == [client |-> made + 1, made |-> made + 1]

\* getSupabaseClient with the configuration set: the cached client, or the
\* one createClient makes now; a client is named by its serial number
getSupabaseClient(cached, made) ==
    IF cached # NoClient
    THEN [client |-> cached, made |-> made]
    ELSE [client |-> made + 1, made |-> made + 1]

\* the locals of a second lookup_order call served by the same process
OtherIdle ==
    [pc |-> "idle", orderId |-> <<>>, attempt |-> 0, data |-> NoData,
     error |-> NoFailure, lastError |-> NoFailure, queries |-> 0,
     outcome |-> Pending, response |-> NoResponse,
     answers |-> <<>>,    \* history: what the data source answered it
     during |-> "idle"]   \* history: where the first request was on arrival

\* two values of MCP_SECRET of the same length
SecretA == <<"s", "3", "c", "r", "e", "t", "-", "A">>
SecretB == <<"s", "3", "c", "r", "e", "t", "-", "B">>

\* a header value is the list of the parts that split(" ") makes of it
NoHeader == [t |-> "undefined", parts |-> <<>>]
Header(parts) == [t |-> "string", parts |-> parts]

\* no HTTP request is being served
NoHttp ==
    [route |-> "", authorization |-> NoHeader, authorization2 |-> NoHeader,
     body |-> NoBody, order_id |-> Undefined]

VARIABLES
    store,          \* the rows of orders_trendyol
    config,         \* whether SUPABASE_URL and the service key are set
    supabaseClient, \* the lazily created client
    pc,             \* where the request is: idle, query, backoff, done
    request,        \* the body handleMcpRequest was called with
    orderId,        \* lookupOrder's argument
    queryOrderId,   \* the key of the query
    attempt,        \* the loop counter
    data, error,    \* the loop's result variables
    lastError,      \* the last retried failure
    answers,        \* history: what the data source answered, per query
    waits,          \* history: the waits started, in ms
    timer,          \* ms left on the pending backoff timer
    waited,         \* history: ms the lookup has spent waiting
    outcome,        \* what lookupOrder returned or threw
    response,       \* what handleMcpRequest returned
    escaped,        \* whether handleMcpRequest threw
    created,        \* history: how many clients createClient has made
    other,          \* a second request in flight in the same process
    mcpSecret,      \* MCP_SECRET
    http,           \* the HTTP request being served: route, headers, body
    stage,          \* where the route handler is: idle, auth, handler, replied
    replies,        \* history: the HTTP replies sent for the request
    logs            \* history: the log entries written for the request

vars ==
    <<store, config, supabaseClient, pc, request, orderId, queryOrderId, attempt,
      data, error, lastError, answers, waits, timer, waited, outcome, response,
      escaped, now, created, other, mcpSecret, http, stage, replies, logs>>

envVars == <<store, config>>
clientVars == <<supabaseClient, created>>
serverVars == <<mcpSecret, http, stage, replies, logs>>
lookupVars == <<orderId, queryOrderId, attempt, data, error, lastError>>

Init ==
    /\ store \in SUBSET StoreRows
    /\ config \in {"set", "missing"}
    /\ supabaseClient = NoClient
    /\ created = 0
    /\ other = OtherIdle
    /\ mcpSecret = SecretA
    /\ http = NoHttp
    /\ stage = "idle"
    /\ replies = <<>>
    /\ logs = <<>>
    /\ pc = "idle"
    /\ request = NoBody
    /\ orderId = <<>>
    /\ queryOrderId = Undefined
    /\ attempt = 0
    /\ data = NoData
    /\ error = NoFailure
    /\ lastError = NoFailure
    /\ answers = <<>>
    /\ waits = <<>>
    /\ timer = 0
    /\ waited = 0
    /\ outcome = Pending
    /\ response = NoResponse
    /\ escaped = FALSE
    /\ now = Time1

\* handleMcpRequest completes with `completion`
Settle(completion) ==
    /\ pc' = "done"
    /\ response' = completion.response
    /\ escaped' = (completion.how = "threw")

\* lookupOrder completes with `out`; handleToolsCall and handleMcpRequest resume
LookupReturns(out) ==
    /\ outcome' = out
    /\ Settle(handleMcpRequestResume(request.id,
                handleToolsCallResume(request.id, orderId, out)))

\* POST /mcp: handleMcpRequest(body) runs to its return or to the first query
HandleMcpRequest(body) ==
    /\ pc = "idle"
    /\ request' = body
    /\ LET c == handleMcpRequestEntry(body)
       IN  IF c.how = "await"
           THEN /\ pc' = "query"
                /\ orderId' = body.params.arguments.order_id.v
                /\ queryOrderId' = QueryOrderId(body.params.arguments.order_id.v)
                /\ attempt' = 1
                /\ UNCHANGED <<response, escaped>>
           ELSE /\ Settle(handleMcpRequestResume(body.id, c))
                /\ UNCHANGED <<orderId, queryOrderId, attempt>>
    /\ UNCHANGED <<envVars, serverVars, other, now, clientVars, data, error, lastError, answers, waits,
                   timer, waited, outcome>>

\* the query result of this attempt carries (d, e): break, retry or fall out
\* of the loop
QueryResult(kind, d, e) ==
    /\ pc = "query"
    /\ config = "set"
    /\ Len(answers) < MaxQueries
    /\ supabaseClient' = getSupabaseClient(supabaseClient, created).client
    /\ created' = getSupabaseClient(supabaseClient, created).made
    /\ answers' = Append(answers, Answer(kind, e, d.row))
    /\ data' = d
    /\ error' = e
    /\ IF ~BreaksLoop(e) /\ RetriesError(attempt, e)
       THEN /\ pc' = "backoff"
            /\ waits' = Append(waits, BackoffMs(attempt))
            /\ timer' = BackoffMs(attempt)
            /\ UNCHANGED <<outcome, response, escaped>>
       ELSE /\ LookupReturns(AfterLoop(d, e, lastError))
            /\ UNCHANGED <<waits, timer>>
    /\ UNCHANGED <<envVars, serverVars, other, now, request, orderId, queryOrderId, attempt, lastError, waited>>

\* the data source answers the query from the store
QueryAnswers ==
    LET r == Single(Matching(store, queryOrderId))
    IN  QueryResult(IF r.error.present THEN "sentinel" ELSE "row", r.data, r.error)

\* the data source answers with one raw record, whatever its columns hold
QueryRecord == \E r \in RawRecords : QueryResult("row", Data(r), NoFailure)

\* the data source answers with neither data nor error
QueryEmpty == QueryResult("empty", NoData, NoFailure)

\* the query result carries an error value
QueryErrorValue == \E e \in ErrorValues : QueryResult("error", NoData, e)

\* the awaited query throws: retry, or rethrow through lookupOrder's catch
QueryThrows ==
    \E x \in Exceptions :
        /\ pc = "query"
        /\ config = "set"
        /\ Len(answers) < MaxQueries
        /\ supabaseClient' = getSupabaseClient(supabaseClient, created).client
        /\ created' = getSupabaseClient(supabaseClient, created).made
        /\ answers' = Append(answers, Answer("exception", x, NoRow))
        /\ IF RetriesException(attempt, x)
           THEN /\ pc' = "backoff"
                /\ waits' = Append(waits, BackoffMs(attempt))
                /\ timer' = BackoffMs(attempt)
                /\ UNCHANGED <<outcome, response, escaped>>
           ELSE /\ LookupReturns(Failed(x.message))
                /\ UNCHANGED <<waits, timer>>
        /\ UNCHANGED <<envVars, serverVars, other, now, request, lookupVars, waited>>

\* getSupabaseClient throws for want of configuration; no query is sent
QueryWithoutConfig ==
    /\ pc = "query"
    /\ config = "missing"
    /\ LET x == Failure(MsgConfig, "", "Error")
       IN  IF RetriesException(attempt, x)
           THEN /\ pc' = "backoff"
                /\ waits' = Append(waits, BackoffMs(attempt))
                /\ timer' = BackoffMs(attempt)
                /\ UNCHANGED <<outcome, response, escaped>>
           ELSE /\ LookupReturns(Failed(x.message))
                /\ UNCHANGED <<waits, timer>>
    /\ UNCHANGED <<envVars, serverVars, other, now, clientVars, request, lookupVars, answers, waited>>

\* time passes while the lookup is suspended on its backoff timer
TimerTicks ==
    /\ pc = "backoff"
    /\ timer > 0
    /\ timer' = IF timer > 1000 THEN timer - 1000 ELSE 0
    /\ waited' = waited + (IF timer > 1000 THEN 1000 ELSE timer)
    /\ now' = Time2
    /\ UNCHANGED <<envVars, serverVars, other, clientVars, pc, request, lookupVars, answers, waits,
                   outcome, response, escaped>>

\* the backoff timer fires: lastError is set and the loop goes on
BackoffElapsed ==
    /\ pc = "backoff"
    /\ timer = 0
    /\ lastError' = answers[Len(answers)].failure
    /\ attempt' = NextAttempt(attempt)
    /\ IF LoopContinues(NextAttempt(attempt))
       THEN /\ pc' = "query"
            /\ UNCHANGED <<outcome, response, escaped>>
       ELSE LookupReturns(AfterLoop(data, error, answers[Len(answers)].failure))
    /\ UNCHANGED <<envVars, serverVars, other, now, clientVars, request, orderId, queryOrderId, data, error,
                   answers, waits, timer, waited>>

\* the response is sent; the process serves the next request
NextRequest ==
    /\ pc = "done"
    /\ pc' = "idle"
    /\ request' = NoBody
    /\ orderId' = <<>>
    /\ queryOrderId' = Undefined
    /\ attempt' = 0
    /\ data' = NoData
    /\ error' = NoFailure
    /\ lastError' = NoFailure
    /\ answers' = <<>>
    /\ waits' = <<>>
    /\ timer' = 0
    /\ waited' = 0
    /\ outcome' = Pending
    /\ response' = NoResponse
    /\ escaped' = FALSE
    /\ UNCHANGED <<envVars, serverVars, other, now, clientVars>>

Next ==
    \/ \E body \in Bodies : HandleMcpRequest(body)
    \/ QueryAnswers
    \/ QueryEmpty
    \/ QueryErrorValue
    \/ QueryThrows
    \/ QueryWithoutConfig
    \/ TimerTicks
    \/ BackoffElapsed
    \/ NextRequest

Spec == Init /\ [][Next]_vars

\* the awaited query settles: with a result, an error value or a throw (the
\* fetch wrapper aborts a silent call after 30 s)
DataSourceSettles ==
    \/ QueryEmpty
    \/ QueryErrorValue
    \/ QueryThrows
    \/ QueryWithoutConfig
    \/ QueryAnswers

\* one tools/call per behaviour, with every params value, against a store
\* that holds the order or not
LiveBodies == {b \in ToolCallBodies : b.id = Str(<<"a">>)}

InitLive ==
    /\ Init
    /\ store \in {{}, {RowTR1}, {Row12}}

ReceiveToolCall == \E body \in LiveBodies : HandleMcpRequest(body)

NextLive ==
    \/ ReceiveToolCall
    \/ QueryAnswers
    \/ QueryEmpty
    \/ QueryErrorValue
    \/ QueryThrows
    \/ QueryWithoutConfig
    \/ TimerTicks
    \/ BackoffElapsed

\* the process under a request that arrives, a data source that settles
\* every call and timers that fire
SpecLive ==
    /\ InitLive
    /\ [][NextLive]_vars
    /\ WF_vars(ReceiveToolCall)
    /\ WF_vars(DataSourceSettles)
    /\ WF_vars(TimerTicks)
    /\ WF_vars(BackoffElapsed)

\* a lookup_order call for TR-1 suspended on its first query, at either clock
\* reading
InitNorm ==
    /\ store = {}
    /\ config = "set"
    /\ supabaseClient = NoClient
    /\ created = 0
    /\ other = OtherIdle
    /\ mcpSecret = SecretA
    /\ http = NoHttp
    /\ stage = "idle"
    /\ replies = <<>>
    /\ logs = <<>>
    /\ pc = "query"
    /\ request = Body("object", Str(<<"2.0">>), Str(<<"tools/call">>), Str(<<"a">>),
                      Params(LookupTool, Args(Str(IdTR1))))
    /\ orderId = IdTR1
    /\ queryOrderId = QueryOrderId(IdTR1)
    /\ attempt = 1
    /\ data = NoData
    /\ error = NoFailure
    /\ lastError = NoFailure
    /\ answers = <<>>
    /\ waits = <<>>
    /\ timer = 0
    /\ waited = 0
    /\ outcome = Pending
    /\ response = NoResponse
    /\ escaped = FALSE
    /\ now \in Times

NextNorm == QueryRecord

\* the lookup from the answer of its query on, for every raw record
SpecNorm == InitNorm /\ [][NextNorm]_vars

\* canonical orders (LookupOrderResponse): order_id, status and last_update
\* set, every other field set or null
CanonicalOrders ==
    {[[f \in OrderFields |-> Null] EXCEPT
        !.order_id = Str(IdTR1), !.status = Str(st), !.last_update = Str(Time1),
        !.customer_name = cn, !.eta = e, !.carrier = c, !.tracking_number = tn,
        !.order_date = od, !.issue_flag = fl, !.return_eligible = re,
        !.refund_amount = ra, !.notes = nt] :
        st \in {SHIPPED, ToUpperCase(TxtPending)},
        cn \in {Null, Str(<<"Ayse">>)},
        e \in {Null, Str(DateOnly)},
        c \in {Null, Str(<<"Yurtici Kargo">>)},
        tn \in {Null, Str(<<"123456789">>)},
        od \in {Null, Str(Time1)},
        fl \in {Null, Str(<<"damaged">>)},
        re \in {Null, Bool(<<"true">>), Bool(<<"false">>)},
        ra \in {Null, Num(<<"25">>)},
        nt \in {Null, Str(<<"Leave at door">>)}}

\* lookupOrder returns a canonical order; handleToolsCall formats it
LookupFinds ==
    /\ pc = "query"
    /\ \E order \in CanonicalOrders : LookupReturns(Found(order))
    /\ UNCHANGED <<envVars, serverVars, other, now, clientVars, request, lookupVars, answers, waits,
                   timer, waited>>

NextFormat == LookupFinds

\* handleToolsCall from the return of lookupOrder on, for every canonical order
SpecFormat == InitNorm /\ [][NextFormat]_vars

-----------------------------------------------------------------------------
(* The authentication gate and the routes of the server *)

\* a request body is a ping or a lookup of TR-1
ConcBodies ==
    {Body("object", Str(<<"2.0">>), m, Str(<<"a">>), Params(LookupTool, Args(Str(IdTR1)))) :
        m \in {Str(<<"ping">>), Str(<<"tools/call">>)}}

BearerWord == <<"Bearer">>
IsWhitespace(c) == c \in {" ", "\t"}

RECURSIVE TrimStart(_)
TrimStart(s) ==
    IF s # <<>> /\ IsWhitespace(Head(s)) THEN TrimStart(Tail(s)) ELSE s

RECURSIVE TrimEnd(_)
TrimEnd(s) ==
    IF s # <<>> /\ IsWhitespace(s[Len(s)]) THEN TrimEnd(SubSeq(s, 1, Len(s) - 1)) ELSE s

\* String.prototype.trim
Trim(s) == TrimEnd(TrimStart(s))

\* s.substring(0, n)
Substring(s, n) == SubSeq(s, 1, IF Len(s) < n THEN Len(s) ELSE n)

\* a header that is set and not the empty string
HeaderTruthy(h) == h.t = "string" /\ h.parts # << <<>> >>

extractBearerToken(authHeader) ==
    IF ~HeaderTruthy(authHeader) THEN Null
    ELSE IF Len(authHeader.parts) # 2 \/ authHeader.parts[1] # BearerWord THEN Null
    ELSE Str(authHeader.parts[2])

Reply(status, body) == [status |-> status, body |-> body]
NoReply == Reply(0, [kind |-> "none"])

\* the 401 and 403 bodies of requireAuth
UnauthorizedBody ==
    [jsonrpc |-> "2.0", id |-> Null, code |-> -32000,
     message |-> "Unauthorized: Missing or invalid Authorization header. Expected: Bearer <token>"]
ForbiddenBody(tokenLength, expectedLength) ==
    [jsonrpc |-> "2.0", id |-> Null, code |-> -32000,
     message |-> "Forbidden: Invalid authentication token",
     tokenLength |-> tokenLength, expectedLength |-> expectedLength]

\* the warnings requireAuth writes on rejecting
WarnMissing(path, h1, h2) ==
    [level |-> "WARN", message |-> "Missing or invalid Authorization header",
     path |-> path,
     headers |-> {n \in {"authorization", "authorization2"} :
                    (IF n = "authorization" THEN h1 ELSE h2).t = "string"}]
WarnInvalid(path, token, expected) ==
    [level |-> "WARN", message |-> "Invalid authentication token", path |-> path,
     tokenLength |-> Len(token), expectedLength |-> Len(expected),
     tokenStart |-> Substring(token, 15), expectedStart |-> Substring(expected, 15),
     tokensMatch |-> (token = expected)]

\* mutant: only the Authorization header is read
AuthHeaderFirstOnly(h1, h2) == h1

\* request.headers.authorization || request.headers.authorization2 || ...
\* (the capitalised names are never set: Node lower-cases header names)
AuthHeader(h1, h2) ==
    IF HeaderTruthy(h1) THEN h1 ELSE IF HeaderTruthy(h2) THEN h2 ELSE NoHeader

\* requireAuth with MCP_SECRET = expectedSecret: the request passes, or is
\* rejected with one reply and one warning
requireAuth(path, h1, h2, expectedSecret) ==
    LET token == extractBearerToken(AuthHeader(h1, h2))
    IN  IF ~Truthy(token)
        THEN [pass |-> FALSE, reply |-> Reply(401, UnauthorizedBody),
              logs |-> <<WarnMissing(path, h1, h2)>>]
        ELSE LET trimmedToken == Trim(token.v)
                 trimmedExpected == Trim(expectedSecret)
             IN  IF trimmedToken # trimmedExpected
                 THEN [pass |-> FALSE,
                       reply |-> Reply(403, ForbiddenBody(Len(trimmedToken),
                                                          Len(trimmedExpected))),
                       logs |-> <<WarnInvalid(path, trimmedToken, trimmedExpected)>>]
                 ELSE [pass |-> TRUE, reply |-> NoReply, logs |-> <<>>]

\* GET /debug/env
DebugEnv(secret) ==
    Reply(200, [hasMcpSecret |-> secret # <<>>, mcpSecretLength |-> Len(secret),
                mcpSecretStart |-> Substring(secret, 20),
                hasSupabaseUrl |-> (config = "set")])

\* POST /mcp replies with what handleMcpRequest returned, or 500 when it threw
McpReply(r, threw) ==
    IF threw
    THEN Reply(500, [jsonrpc |-> "2.0", id |-> Null, code |-> InternalError,
                     message |-> "Internal server error"])
    ELSE Reply(200, r)

\* POST /lookup-order: the test of the body
RestAccepts(order_id) == order_id.t = "string" /\ Trim(order_id.v) # <<>>

BadRequest ==
    Reply(400, [error |-> "Invalid request",
                message |-> "order_id is required and must be a non-empty string"])

\* POST /lookup-order after lookupOrder returned or threw
RestReply(order_id, out) ==
    CASE out.kind = "failed" ->
            Reply(500, [error |-> "Internal server error", message |-> out.cause])
      [] out.kind = "notfound" ->
            Reply(404, [error |-> "Order not found",
                        message |-> <<"Order with ID '">> \o order_id \o
                                    <<"' was not found">>])
      [] OTHER ->
            Reply(200, [order_id |-> out.order.order_id, status |-> out.order.status,
                        eta |-> out.order.eta, carrier |-> out.order.carrier,
                        tracking_number |-> out.order.tracking_number,
                        last_update |-> out.order.last_update,
                        issue_flag |-> out.order.issue_flag,
                        notes |-> out.order.notes,
                        formatted_text |-> formatOrderForAgent(out.order)])

\* a token that is not the secret, of the secret's length
TokenWrong == <<"s", "3", "c", "r", "e", "t", "-", "X">>

AuthorizationValues ==
    {NoHeader, Header(<< <<>> >>), Header(<<SecretA>>),
     Header(<< <<"Basic">>, SecretA >>), Header(<<BearerWord, <<>>, SecretA>>),
     Header(<<BearerWord, SecretA>>), Header(<<BearerWord, TokenWrong>>),
     Header(<<BearerWord, <<"\t">> \o SecretA>>)}
Authorization2Values == {NoHeader, Header(<<BearerWord, SecretA>>)}

RestOrderIds ==
    {Undefined, Num(Id12), Str(<<>>), Str(<<" ">>), Str(IdTR1), Str(Id12)}

McpRoute == "/mcp"
LookupOrderRoute == "/lookup-order"
DebugEnvRoute == "/debug/env"

httpVars == <<http, stage, replies, logs>>
coreVars ==
    <<clientVars, pc, request, lookupVars, answers, waits, timer, waited, outcome,
      response, escaped, now>>

\* GET /debug/env is answered at once, without authentication
GetDebugEnv ==
    /\ stage = "idle" /\ pc = "idle"
    /\ http' = [NoHttp EXCEPT !.route = DebugEnvRoute]
    /\ replies' = Append(replies, DebugEnv(mcpSecret))
    /\ stage' = "replied"
    /\ UNCHANGED <<envVars, mcpSecret, other, coreVars, logs>>

\* a POST arrives on /mcp or /lookup-order; the handler awaits requireAuth
Post ==
    /\ stage = "idle" /\ pc = "idle"
    /\ \E h1 \in AuthorizationValues, h2 \in Authorization2Values :
        \/ \E body \in ConcBodies :
              http' = [NoHttp EXCEPT !.route = McpRoute, !.authorization = h1,
                                     !.authorization2 = h2, !.body = body]
        \/ \E id \in RestOrderIds :
              http' = [NoHttp EXCEPT !.route = LookupOrderRoute, !.authorization = h1,
                                     !.authorization2 = h2, !.order_id = id]
    /\ stage' = "auth"
    /\ UNCHANGED <<envVars, mcpSecret, other, coreVars, replies, logs>>

\* await requireAuth(request, reply); if (reply.sent) return
RequireAuth ==
    /\ stage = "auth"
    /\ LET r == requireAuth(http.route, http.authorization, http.authorization2,
                            mcpSecret)
       IN  /\ logs' = logs \o r.logs
           /\ IF r.pass
              THEN stage' = "handler" /\ UNCHANGED replies
              ELSE stage' = "replied" /\ replies' = Append(replies, r.reply)
    /\ UNCHANGED <<envVars, mcpSecret, other, coreVars, http>>

\* POST /mcp past the gate: handleMcpRequest(body)
McpDispatch ==
    /\ stage = "handler" /\ http.route = McpRoute
    /\ HandleMcpRequest(http.body)

\* POST /mcp: reply.send(response)
McpReplies ==
    /\ stage = "handler" /\ http.route = McpRoute /\ pc = "done"
    /\ replies' = Append(replies, McpReply(response, escaped))
    /\ stage' = "replied"
    /\ UNCHANGED <<envVars, mcpSecret, other, coreVars, http, logs>>

\* POST /lookup-order past the gate: 400, or lookupOrder(order_id) up to its
\* first query
RestLookupOrder ==
    /\ stage = "handler" /\ http.route = LookupOrderRoute /\ pc = "idle"
    /\ IF RestAccepts(http.order_id)
       THEN /\ pc' = "query"
            /\ orderId' = http.order_id.v
            /\ queryOrderId' = QueryOrderId(http.order_id.v)
            /\ attempt' = 1
            /\ UNCHANGED <<stage, replies>>
       ELSE /\ replies' = Append(replies, BadRequest)
            /\ stage' = "replied"
            /\ UNCHANGED <<pc, orderId, queryOrderId, attempt>>
    /\ UNCHANGED <<envVars, mcpSecret, other, clientVars, request, data, error, lastError,
                   answers, waits, timer, waited, outcome, response, escaped, now, http,
                   logs>>

\* POST /lookup-order: the reply made of what lookupOrder returned or threw
\* (the envelope that LookupReturns leaves in response is not used here)
RestReplies ==
    /\ stage = "handler" /\ http.route = LookupOrderRoute /\ pc = "done"
    /\ replies' = Append(replies, RestReply(orderId, outcome))
    /\ stage' = "replied"
    /\ UNCHANGED <<envVars, mcpSecret, other, coreVars, http, logs>>

\* the request is over; the server takes the next one
HttpEnds ==
    /\ stage = "replied" /\ pc = "idle"
    /\ http' = NoHttp
    /\ stage' = "idle"
    /\ replies' = <<>>
    /\ logs' = <<>>
    /\ UNCHANGED <<envVars, mcpSecret, other, coreVars>>

\* after the reply the handler's activation is over
RequestEnds ==
    /\ stage = "replied"
    /\ NextRequest

InitHttp ==
    /\ Init
    /\ store \in {{}, {RowTR1}}

NextHttp ==
    \/ GetDebugEnv
    \/ Post
    \/ RequireAuth
    \/ McpDispatch
    \/ McpReplies
    \/ RestLookupOrder
    \/ RestReplies
    \/ HttpEnds
    \/ QueryAnswers
    \/ QueryErrorValue
    \/ QueryWithoutConfig
    \/ TimerTicks
    \/ BackoffElapsed
    \/ RequestEnds

\* the server: every request passes the routes and, on /mcp and
\* /lookup-order, the gate
SpecHttp == InitHttp /\ [][NextHttp]_vars

-----------------------------------------------------------------------------
(* The response as a function of the body and of the answers to the
   request's own queries *)

\* lookupOrder after its loop, the clock reading `clock`
AfterLoopAt(d, e, le, clock) ==
    IF ~e.present /\ ~AfterRetriesFailed(le, d) /\ d.present
    THEN NormalizeAt(d.row, clock)
    ELSE AfterLoop(d, e, le)

\* lookupOrder from attempt a on, its queries answered by as in order; Pending
\* while a query or a wait is outstanding
RECURSIVE LookupOver(_, _, _, _)
LookupOver(as, a, le, clock) ==
    IF as = <<>> THEN Pending
    ELSE LET ans == Head(as)
             d == IF ans.kind = "row" THEN Data(ans.row) ELSE NoData
         IN  IF ans.kind = "exception"
             THEN IF RetriesException(a, ans.failure)
                  THEN LookupOver(Tail(as), NextAttempt(a), ans.failure, clock)
                  ELSE Failed(ans.failure.message)
             ELSE IF ~BreaksLoop(ans.failure) /\ RetriesError(a, ans.failure)
                  THEN LookupOver(Tail(as), NextAttempt(a), ans.failure, clock)
                  ELSE AfterLoopAt(d, ans.failure, le, clock)

\* handleMcpRequest(body) when the queries of its lookup are answered by as
ResponseTo(body, as, clock) ==
    LET c == handleMcpRequestEntry(body)
    IN  IF c.how # "await"
        THEN handleMcpRequestResume(body.id, c).response
        ELSE LET out == IF config = "missing" THEN Failed(MsgConfig)
                        ELSE LookupOver(as, 1, NoFailure, clock)
             IN  handleMcpRequestResume(body.id,
                     handleToolsCallResume(body.id, body.params.arguments.order_id.v,
                                           out)).response

\* the tools/call body of the other request
OtherBody(o) ==
    Body("object", Str(<<"2.0">>), Str(<<"tools/call">>), Str(<<"b">>),
         Params(LookupTool, Args(Str(o.orderId))))

-----------------------------------------------------------------------------
(* Two requests in flight in one process (supabase.ts, mcp.ts) *)

\* mutant: the backoff wait keeps the thread until the timer fires
YieldsExceptBackoff(p) == p \in {"idle", "query", "done"}

\* every suspension hands the thread back to the event loop: a request that
\* has not arrived, awaits its query (await supabase...single()), awaits its
\* backoff timer (await new Promise(... setTimeout ...)) or has returned
\* lets any other request run
Yields(p) == p \in {"idle", "query", "backoff", "done"}

OtherIds == {IdTR1, Id12}
OtherRequestId == Str(<<"b">>)

\* what the data source may answer the other request: the store's answer, a
\* transient error value, a permanent one
OtherAnswers(key) ==
    {Single(Matching(store, key))}
    \cup {[data |-> NoData, error |-> e] :
            e \in {Failure(MsgFetchFailed, "", ""), Failure(MsgPermission, "42501", "")}}

\* the history entry of the result r of a query
OtherAnswer(r) ==
    Answer(IF r.error = Sentinel THEN "sentinel"
           ELSE IF r.error.present THEN "error" ELSE "row",
           r.error, r.data.row)

\* the other request's lookupOrder completes with `out`
OtherReturns(o, out) ==
    [o EXCEPT !.pc = "done", !.outcome = out,
              !.response = handleMcpRequestResume(OtherRequestId,
                               handleToolsCallResume(OtherRequestId, o.orderId, out)).response]

\* a second tools/call of lookup_order arrives and runs to its first query
OtherStarts ==
    /\ Yields(pc)
    /\ other.pc = "idle"
    /\ \E id \in OtherIds :
        other' = [OtherIdle EXCEPT !.pc = "query", !.orderId = id, !.attempt = 1,
                                   !.during = pc]
    /\ UNCHANGED <<envVars, serverVars, now, clientVars, pc, request, lookupVars, answers,
                   waits, timer, waited, outcome, response, escaped>>

\* the other request's query settles: break, retry or fall out of the loop
OtherQueries ==
    /\ Yields(pc)
    /\ other.pc = "query"
    /\ IF config = "missing"
       THEN /\ other' = OtherReturns(other, Failed(MsgConfig))
            /\ UNCHANGED clientVars
       ELSE /\ supabaseClient' = getSupabaseClient(supabaseClient, created).client
            /\ created' = getSupabaseClient(supabaseClient, created).made
            /\ \E r \in OtherAnswers(QueryOrderId(other.orderId)) :
                LET o == [other EXCEPT !.data = r.data, !.error = r.error,
                                       !.queries = @ + 1,
                                       !.answers = Append(@, OtherAnswer(r))]
                IN  other' = IF ~BreaksLoop(r.error) /\ RetriesError(o.attempt, r.error)
                             THEN [o EXCEPT !.pc = "backoff"]
                             ELSE OtherReturns(o, AfterLoop(r.data, r.error, o.lastError))
    /\ UNCHANGED <<envVars, serverVars, now, pc, request, lookupVars, answers,
                   waits, timer, waited, outcome, response, escaped>>

\* the other request's backoff timer fires
OtherBackoffElapsed ==
    /\ Yields(pc)
    /\ other.pc = "backoff"
    /\ LET o == [other EXCEPT !.lastError = other.error, !.attempt = NextAttempt(@)]
       IN  other' = IF LoopContinues(o.attempt)
                    THEN [o EXCEPT !.pc = "query"]
                    ELSE OtherReturns(o, AfterLoop(o.data, o.error, o.lastError))
    /\ UNCHANGED <<envVars, serverVars, now, clientVars, pc, request, lookupVars, answers,
                   waits, timer, waited, outcome, response, escaped>>

\* the other request's response is sent
OtherEnds ==
    /\ Yields(pc)
    /\ other.pc = "done"
    /\ other' = OtherIdle
    /\ UNCHANGED <<envVars, serverVars, now, clientVars, pc, request, lookupVars, answers,
                   waits, timer, waited, outcome, response, escaped>>

InitConc ==
    /\ Init
    /\ store \in {{}, {RowTR1}}

NextConc ==
    \/ \E body \in ConcBodies : HandleMcpRequest(body)
    \/ QueryAnswers
    \/ QueryErrorValue
    \/ QueryWithoutConfig
    \/ TimerTicks
    \/ BackoffElapsed
    \/ NextRequest
    \/ OtherStarts
    \/ OtherQueries
    \/ OtherBackoffElapsed
    \/ OtherEnds

\* a step of the other request
OtherStep ==
    \/ OtherStarts
    \/ OtherBackoffElapsed
    \/ OtherEnds
    \/ OtherQueries

\* one process serving two requests whose steps interleave at every await
SpecConc == InitConc /\ [][NextConc]_vars

----------------------------------------------------------------------------
(* Vocabulary of the properties *)

ErrorCodes ==
    {ParseError, InvalidRequest, MethodNotFound, InvalidParams, InternalError, OrderNotFound}

StandardCodes == {ParseError, InvalidRequest, MethodNotFound, InvalidParams, InternalError}

IsSuccess(r) == "result" \in r.keys
IsError(r) == "error" \in r.keys

\* the envelope of section 6: jsonrpc "2.0" and exactly one of result, error
WellFormedEnvelope(r) ==
    /\ r.keys \in {{"jsonrpc", "id", "result"}, {"jsonrpc", "id", "error"}}
    /\ r.jsonrpc = "2.0"
    /\ IsError(r) => r.error.code \in Int /\ r.error.message \in Seq(STRING)

\* a malformed request envelope, as section 4.1 defines it
Malformed(body) ==
    \/ body.t # "object"
    \/ body.jsonrpc # Str(<<"2.0">>)
    \/ body.method.t # "string"
    \/ body.id.t \notin {"string", "number", "null"}

\* the request is a tools/call of lookup_order with a non-empty string order_id
IsLookupCall(body) ==
    /\ ~Malformed(body)
    /\ body.method.v = <<"tools/call">>
    /\ body.params.t = "object"
    /\ body.params.name = LookupTool
    /\ body.params.arguments.t = "object"
    /\ body.params.arguments.order_id.t = "string"
    /\ body.params.arguments.order_id.v # <<>>

LastAnswer == answers[Len(answers)]

IsSentinel(a) == a.failure.present /\ a.failure.code = "PGRST116"
IsRecord(a) == a.kind = "row" /\ ~a.failure.present
IsEmptyResult(a) == a.kind = "empty" /\ ~a.failure.present /\ a.row = NoRow
IsFailure(a) == a.kind \in {"error", "exception"} /\ ~IsSentinel(a)

\* transient-network failure of section 4.2: connection refused, timeout or
\* generic network error, however it was reported
TransientNetwork(f) ==
    \/ Includes(f.message, <<"fetch failed">>)
    \/ Includes(f.message, <<"ECONNREFUSED">>)
    \/ Includes(f.message, <<"timeout">>)
    \/ Includes(f.message, <<"network">>)
    \/ f.name \in {"AbortError", "TimeoutError"}

LookupEnded == outcome.kind # "pending"

----------------------------------------------------------------------------
(* Properties *)

\* C1: whatever the body and whatever the data source answers or throws,
\* handleMcpRequest returns (never throws) an envelope with jsonrpc "2.0" and
\* exactly one of result and error, the error with a code and a message.
C1_NeverThrows ==
    pc = "done" => ~escaped /\ WellFormedEnvelope(response)

C1_Witness ==
    /\ pc = "done"
    /\ outcome.kind = "failed"
    /\ answers # <<>>
    /\ LastAnswer.kind = "exception"
    /\ IsError(response)

\* C2: a malformed envelope is answered InvalidRequest with id null, and no
\* operation runs: no result, no lookup, no query.
C2_MalformedRejected ==
    (pc = "done" /\ Malformed(request)) =>
        /\ IsError(response)
        /\ response.error.code = InvalidRequest
        /\ response.id = Null
        /\ outcome = Pending
        /\ answers = <<>>
        /\ attempt = 0

C2_Witness ==
    /\ pc = "done"
    /\ request.t = "object"
    /\ request.jsonrpc = Str(<<"2.0">>)
    /\ request.method = Str(<<"tools/call">>)
    /\ request.id = Obj
    /\ request.params = Params(LookupTool, Args(Str(Id12)))
    /\ response.error.code = InvalidRequest

\* C3: the response to a well-formed request carries the request's id,
\* whatever the method and however a tools/call ends.
C3_IdEchoed ==
    (pc = "done" /\ ~Malformed(request)) => response.id = request.id

C3_Witness ==
    /\ pc = "done"
    /\ ~Malformed(request)
    /\ request.id = Num(<<"1">>)
    /\ outcome.kind = "failed"
    /\ response.id = Num(<<"1">>)

\* the store holds no order whose identifier is the string s
AbsentFromStore(s) == \A r \in store : Text(r.order_id) # s

\* every query of the lookup was answered from the store
StoreAnsweredAll ==
    /\ answers # <<>>
    /\ \A i \in 1..Len(answers) : answers[i].kind \in {"row", "sentinel"}

\* C4: a lookup_order call for an identifier that is absent from the store,
\* every query being answered by the store, ends in the OrderNotFound error
\* whose message contains the identifier as sent.
C4_AbsentIsOrderNotFound ==
    (/\ pc = "done"
     /\ IsLookupCall(request)
     /\ AbsentFromStore(request.params.arguments.order_id.v)
     /\ StoreAnsweredAll) =>
        /\ IsError(response)
        /\ ~IsSuccess(response)
        /\ response.error.code = OrderNotFound
        /\ response.error.code \notin StandardCodes
        /\ Includes(response.error.message, request.params.arguments.order_id.v)

\* C5: lookupOrder returns not-found only after a final answer that is the
\* not-found sentinel or an error-free empty result, never after a final
\* failure; and a final sentinel is never reported as a failure.
C5_TriState ==
    LookupEnded =>
        /\ outcome.kind = "notfound" =>
              /\ answers # <<>>
              /\ IsSentinel(LastAnswer) \/ IsEmptyResult(LastAnswer)
              /\ ~IsFailure(LastAnswer)
        /\ (answers # <<>> /\ IsSentinel(LastAnswer)) => outcome.kind = "notfound"

C5_Witness ==
    /\ LookupEnded
    /\ Len(answers) = 2
    /\ IsFailure(answers[1])
    /\ IsSentinel(answers[2])
    /\ outcome.kind = "notfound"

\* C6: one lookup sends at most 3 queries to the data source.
C6_AtMostThreeQueries == Len(answers) <= 3

C6_Witness ==
    /\ LookupEnded
    /\ Len(answers) = 3
    /\ answers[1].kind = "error"
    /\ answers[2].kind = "exception"

\* C7: when the queries before the k-th (k <= 3) failed and were retried and
\* the k-th returns a record that has an identifier, the lookup returns the
\* order of that record.
C7_SuccessAfterRetries ==
    (/\ LookupEnded
     /\ answers # <<>>
     /\ IsRecord(LastAnswer)
     /\ Truthy(LastAnswer.row.order_id)
     /\ \A i \in 1..(Len(answers) - 1) : IsFailure(answers[i])) =>
        /\ Len(answers) <= 3
        /\ outcome = Found(Transform(LastAnswer.row, now))
        /\ outcome.order.order_id = Str(Text(LastAnswer.row.order_id))
        /\ pc = "done"
        /\ IsSuccess(response)
        /\ response.result.structured.order_id = Str(Text(LastAnswer.row.order_id))

C7_Witness ==
    /\ LookupEnded
    /\ Len(answers) = 3
    /\ answers[1].kind = "error" /\ TransientNetwork(answers[1].failure)
    /\ answers[2].kind = "exception" /\ TransientNetwork(answers[2].failure)
    /\ IsRecord(answers[3])
    /\ outcome.kind = "found"

\* C8: a tools/call whose three queries all fail with transient-network
\* failures returns the InternalError envelope.
C8_ExhaustedIsInternalError ==
    (/\ pc = "done"
     /\ Len(answers) = 3
     /\ \A i \in 1..3 : IsFailure(answers[i]) /\ TransientNetwork(answers[i].failure)) =>
        /\ ~escaped
        /\ IsError(response)
        /\ ~IsSuccess(response)
        /\ response.error.code = InternalError

C8_Witness ==
    /\ pc = "done"
    /\ Len(answers) = 3
    /\ \A i \in 1..3 : answers[i].kind = "error" /\ TransientNetwork(answers[i].failure)
    /\ response.error.code = InternalError

\* C9: the query that is answered with the not-found sentinel is the last
\* one: the lookup has returned not-found, and no wait was started after it.
C9_SentinelEndsLookup ==
    \A i \in 1..Len(answers) :
        IsSentinel(answers[i]) =>
            /\ i = Len(answers)
            /\ pc = "done"
            /\ outcome = NotFound
            /\ Len(waits) = i - 1

C9_Witness ==
    /\ Len(answers) = 3
    /\ IsSentinel(answers[3])
    /\ Len(waits) = 2
    /\ outcome = NotFound

\* C10: query n+1 is sent if and only if query n failed with a
\* transient-network failure and n < 3, alike for error values and exceptions.
C10_RetryIffTransient ==
    pc = "done" =>
        \A n \in 1..Len(answers) :
            (n < Len(answers)) <=>
                (IsFailure(answers[n]) /\ TransientNetwork(answers[n].failure) /\ n < 3)

RECURSIVE Sum(_)
Sum(seq) == IF seq = <<>> THEN 0 ELSE Head(seq) + Sum(Tail(seq))

\* C11: the n-th wait of a lookup is 1000 ms x n and is the only wait between
\* query n and query n+1; the next query is sent only when the waits started
\* have elapsed in full; no wait is pending or was started after the last
\* query; the waits of one lookup sum to at most 3000 ms.
C11_LinearBackoff ==
    /\ \A n \in 1..Len(waits) : waits[n] = 1000 * n
    /\ Sum(waits) <= 3000
    /\ pc = "backoff" => Len(waits) = Len(answers) /\ waited + timer = Sum(waits)
    /\ (pc \in {"query", "done"} /\ answers # <<>>) =>
          Len(waits) = Len(answers) - (IF pc = "done" THEN 1 ELSE 0)
    /\ pc \in {"query", "done"} => timer = 0 /\ waited = Sum(waits)

C11_Witness ==
    /\ pc = "done"
    /\ Len(answers) = 3
    /\ waits = <<1000, 2000>>
    /\ waited = 3000
    /\ outcome.kind = "found"

\* the cause names a connectivity failure / a generic query failure
IsConnectivityCause(cause) ==
    /\ cause # <<>>
    /\ cause[1] \in {"Network connection failed: Unable to connect to Supabase database. ",
                     "Network connection failed after retries: "}
IsQueryFailureCause(cause) == cause # <<>> /\ cause[1] = "Database query failed: "

\* C12: a lookup that fails after a final failed query surfaces the
\* connectivity message when that failure is a connectivity failure
\* (refused, timeout, network; error value or exception) and the generic
\* query-failure message otherwise.
C12_CauseDistinguishesConnectivity ==
    (/\ LookupEnded
     /\ outcome.kind = "failed"
     /\ answers # <<>>
     /\ IsFailure(LastAnswer)) =>
        IF TransientNetwork(LastAnswer.failure)
        THEN IsConnectivityCause(outcome.cause)
        ELSE IsQueryFailureCause(outcome.cause)

\* the identifier is an integer numeral from its first to its last character
ParsesFullyAsInteger(s) == s # <<>> /\ \A i \in 1..Len(s) : s[i] \in Digits

TheOrderId == request.params.arguments.order_id.v

\* C13: for an identifier that is an integer numeral, the store is asked for
\* the string as sent and for the parsed number, so the record is returned
\* when the store holds either.
C13_QueriesBothForms ==
    (/\ pc = "done"
     /\ IsLookupCall(request)
     /\ ParsesFullyAsInteger(TheOrderId)
     /\ StoreAnsweredAll
     /\ \E r \in store :
            \/ r.order_id = Str(TheOrderId)
            \/ r.order_id = ParseInt(TheOrderId)) =>
        IsRecord(LastAnswer)

\* C14: an identifier that is not an integer numeral is the key of the query
\* unchanged, and an order is returned only under the identifier asked for.
C14_ExactMatch ==
    (pc = "done" /\ IsLookupCall(request)) =>
        /\ ~ParsesFullyAsInteger(TheOrderId) => queryOrderId = Str(TheOrderId)
        /\ outcome.kind = "found" => outcome.order.order_id = Str(TheOrderId)

SupportedMethods ==
    {<<"initialize">>, <<"ping">>, <<"tools/list">>, <<"tools/call">>}

\* the resolver was not invoked for the request
ResolverNotInvoked ==
    /\ outcome = Pending
    /\ answers = <<>>
    /\ attempt = 0
    /\ pc \notin {"query", "backoff"}

\* C15: a well-formed request for a method outside the routing table is
\* answered MethodNotFound without the resolver being invoked; a request for
\* one of the four methods is never answered MethodNotFound.
C15_RoutingExhaustive ==
    (pc # "idle" /\ ~Malformed(request)) =>
        IF request.method.v \in SupportedMethods
        THEN ~(IsError(response) /\ response.error.code = MethodNotFound)
        ELSE /\ IsError(response)
             /\ response.error.code = MethodNotFound
             /\ ResolverNotInvoked

C15_Witness ==
    /\ pc = "done"
    /\ ~Malformed(request)
    /\ request.method = Str(<<"orders/delete">>)
    /\ request.params = Params(LookupTool, Args(Str(Id12)))
    /\ response.error.code = MethodNotFound

\* C16: a tools/call whose params are not {name: string, arguments: mapping},
\* whose tool is not lookup_order, or whose order_id is missing, not a string
\* or empty, is answered InvalidParams and nothing is queried; for an unknown
\* tool with a mapping of arguments the message names the tool.
C16_InvalidParams ==
    (/\ pc # "idle"
     /\ ~Malformed(request)
     /\ request.method.v = <<"tools/call">>
     /\ ~IsLookupCall(request)) =>
        /\ pc = "done"
        /\ IsError(response)
        /\ response.error.code = InvalidParams
        /\ ResolverNotInvoked
        /\ (/\ request.params.t = "object"
            /\ request.params.name.t = "string"
            /\ request.params.name # LookupTool
            /\ request.params.arguments.t = "object") =>
                Includes(response.error.message, request.params.name.v)

C16_Witness ==
    /\ pc = "done"
    /\ ~Malformed(request)
    /\ request.method.v = <<"tools/call">>
    /\ request.params = Params(Str(<<"cancel_order">>), Args(Str(Id12)))
    /\ response.error.code = InvalidParams
    /\ Includes(response.error.message, <<"cancel_order">>)

\* the tool result of a successful lookup_order call
IsToolResult(r) == IsSuccess(r) /\ r.result.tag = "tools/call"

Discloses(r, secret) ==
    \/ Includes(r.error.message, secret)
    \/ r.error.hasData /\ Includes(r.error.data, secret)

\* C18: the InternalError envelope of a failed lookup contains, in message
\* and data, neither the data-source URL nor the diagnostic text of any
\* failure the data source reported (so envelopes of failures that differ
\* only in that text are equal).
C18_Sanitized ==
    (pc = "done" /\ outcome.kind = "failed") =>
        /\ IsError(response)
        /\ response.error.code = InternalError
        /\ ~Discloses(response, <<SupabaseUrl>>)
        /\ \A i \in 1..Len(answers) :
              answers[i].failure.present =>
                 ~Discloses(response, answers[i].failure.message)

\* the record has no identifier: the column is absent, null or empty
LacksIdentifier(rawData) == rawData.order_id \in {Undefined, Null, Str(<<>>)}

\* C19: a returned record without identifier fails the lookup and is answered
\* InternalError, neither OrderNotFound nor a success; a returned record with
\* an identifier is normalized without failure.
C19_IdentifierFault ==
    (pc = "done" /\ answers # <<>> /\ IsRecord(LastAnswer)) =>
        IF LacksIdentifier(LastAnswer.row)
        THEN /\ outcome.kind = "failed"
             /\ IsError(response)
             /\ response.error.code = InternalError
        ELSE /\ outcome.kind = "found"
             /\ IsToolResult(response)

\* C20: the status of every canonical order the resolver returns is one of
\* PROCESSING, SHIPPED, DELIVERED, CANCELED, RETURNED, ON_HOLD, whatever the
\* status text of the raw record.
C20_StatusEnumerated ==
    outcome.kind = "found" => Text(outcome.order.status) \in OrderStatus

\* the record the lookup normalized
TheRecord == LastAnswer.row

\* the lookup normalized a record and returned its canonical order
Normalized ==
    /\ pc = "done"
    /\ answers # <<>>
    /\ IsRecord(LastAnswer)
    /\ outcome.kind = "found"

\* a column holds a value: it is neither absent nor empty nor zero
Populated(val) == val \notin {Undefined, Null, Str(<<>>), Num(<<"0">>)}

\* the keyword families of section 4.3, in their order
Families ==
    <<[status |-> SHIPPED, keywords |-> {SHIPPED, SHIPPING}],
      [status |-> DELIVERED, keywords |-> {DELIVERED, DELIVERY}],
      [status |-> PROCESSING, keywords |-> {PROCESSING, PROCESS}],
      [status |-> CANCELED, keywords |-> {CANCELED, CANCELLED}],
      [status |-> RETURNED, keywords |-> {RETURNED, RETURN}],
      [status |-> ONHOLD, keywords |-> {HOLD, ONHOLD}]>>

\* keyword occurs in text at some position, letter case disregarded
OccursIgnoringCase(text, keyword) ==
    \E start \in 1..Len(text) :
        /\ start + Len(keyword) - 1 <= Len(text)
        /\ \A j \in 1..Len(keyword) : UpperChar(text[start + j - 1]) = keyword[j]

MatchingFamilies(text) ==
    {i \in 1..Len(Families) :
        \E keyword \in Families[i].keywords : OccursIgnoringCase(text, keyword)}

\* the status text of the record: status first, order_status second
SourceStatus(rawData) ==
    IF Populated(rawData.status) THEN rawData.status ELSE rawData.order_status

RecordAnswered == pc = "done" /\ answers # <<>> /\ IsRecord(LastAnswer)

\* C22: a record in which neither status nor order_status is present is
\* normalized like the same record with a status text, but for its canonical
\* status, which is PROCESSING: the missing status is not an error.
C22_MissingStatusDefaults ==
    (/\ RecordAnswered
     /\ ~Populated(TheRecord.status)
     /\ ~Populated(TheRecord.order_status)) =>
        /\ outcome.kind = Normalize([TheRecord EXCEPT !.status = Str(TxtShipped)]).kind
        /\ outcome.kind = "found" =>
              /\ outcome.order.status = Str(PROCESSING)
              /\ IsToolResult(response)
              /\ response.result.structured.status = Str(PROCESSING)

C22_Witness ==
    /\ Normalized
    /\ TheRecord.status = Null
    /\ TheRecord.order_status = Undefined
    /\ outcome.order.status = Str(PROCESSING)
    /\ IsToolResult(response)

\* the canonical status section 4.3 assigns to a status text
FamilyStatus(text) ==
    IF MatchingFamilies(text) = {}
    THEN [n \in 1..Len(text) |-> UpperChar(text[n])]
    ELSE Families[CHOOSE i \in MatchingFamilies(text) :
                    \A j \in MatchingFamilies(text) : i <= j].status

\* the calendar date (UTC) of the instant a date value denotes, null when it
\* denotes none
CalendarDate(val) ==
    LET iso == CASE val.t = "string" -> DateOfString(val.v)
                 [] val.t = "number" -> DateOfNumber(val.v)
                 [] val.t = "date" -> val.v
                 [] OTHER -> <<>>
    IN  IF iso = <<>> THEN Null ELSE Str(<<iso[1]>>)

\* C23: when only the legacy column of status, eta and carrier is populated,
\* the canonical status is the classification of order_status, eta is the
\* calendar date of estimated_delivery_date and carrier is delivery_partner.
C23_LegacyColumns ==
    Normalized =>
        /\ (~Populated(TheRecord.status) /\ Populated(TheRecord.order_status)) =>
              outcome.order.status = Str(FamilyStatus(Text(TheRecord.order_status)))
        /\ (~Populated(TheRecord.eta) /\ Populated(TheRecord.estimated_delivery_date)) =>
              outcome.order.eta = CalendarDate(TheRecord.estimated_delivery_date)
        /\ (~Populated(TheRecord.carrier) /\ Populated(TheRecord.delivery_partner)) =>
              outcome.order.carrier = Str(Text(TheRecord.delivery_partner))

C23_Witness ==
    /\ Normalized
    /\ TheRecord \in LegacyRecords
    /\ TheRecord.order_status = Str(TxtShipped)
    /\ TheRecord.estimated_delivery_date = Str(DateOnly)
    /\ outcome.order.status = Str(SHIPPED)
    /\ outcome.order.eta = Str(DateOnly)
    /\ outcome.order.carrier = Str(<<"Aras Kargo">>)

\* the overlapping fields: the canonical field, its new-generation column and
\* its legacy columns
Overlaps ==
    {[field |-> "status", new |-> "status", legacy |-> {"order_status"}],
     [field |-> "eta", new |-> "eta", legacy |-> {"estimated_delivery_date"}],
     [field |-> "carrier", new |-> "carrier", legacy |-> {"delivery_partner"}],
     [field |-> "tracking_number", new |-> "tracking_number",
      legacy |-> {"tracking_id", "tracking"}],
     [field |-> "last_update", new |-> "last_update",
      legacy |-> {"updated_at", "order_date", "created_at"}],
     [field |-> "issue_flag", new |-> "issue_flag", legacy |-> {"issue_type"}],
     [field |-> "notes", new |-> "notes", legacy |-> {"order_notes"}]}

LegacyColumns == UNION {p.legacy : p \in Overlaps}

\* the record without its legacy columns
WithoutLegacy(rawData) ==
    [c \in Columns |-> IF c \in LegacyColumns THEN Undefined ELSE rawData[c]]

\* C24: when the new-generation and a legacy column of an overlapping field
\* are both populated, the canonical field is what it is for the record
\* without its legacy columns.
C24_NewColumnWins ==
    Normalized =>
        \A p \in Overlaps :
            (/\ Populated(TheRecord[p.new])
             /\ \E c \in p.legacy : Populated(TheRecord[c])) =>
                outcome.order[p.field] = Transform(WithoutLegacy(TheRecord), now)[p.field]

C24_Witness ==
    /\ Normalized
    /\ TheRecord.carrier = Str(<<"Yurtici Kargo">>)
    /\ TheRecord.delivery_partner = Str(<<"Aras Kargo">>)
    /\ TheRecord.eta = Str(DateOnly)
    /\ TheRecord.estimated_delivery_date = Str(DateTimeOffset)
    /\ TheRecord.tracking_number = Str(<<"123456789">>)
    /\ TheRecord.tracking_id = Str(<<"T-77">>)
    /\ outcome.order.carrier = Str(<<"Yurtici Kargo">>)
    /\ outcome.order.eta = Str(DateOnly)
    /\ outcome.order.tracking_number = Str(<<"123456789">>)

\* a key is absent from the record
Absent(val) == val \in {Undefined, Null}

\* the value of the first key of the chain that is not absent, undefined
\* when all are
FirstNonAbsent(rawData, chain) ==
    LET present == {i \in 1..Len(chain) : ~Absent(rawData[chain[i]])}
    IN  IF present = {} THEN Undefined
        ELSE rawData[chain[CHOOSE i \in present : \A j \in present : i <= j]]

\* C25: along each key chain the first key that is not absent supplies the
\* value, an empty or zero value included; a later key is consulted only
\* when every earlier key is absent.
C25_FirstNonAbsentWins ==
    Normalized =>
        /\ outcome.order.tracking_number =
              toStr(FirstNonAbsent(TheRecord, <<"tracking_number", "tracking_id", "tracking">>))
        /\ outcome.order.last_update =
              toTimestampStr(
                FirstNonAbsent(TheRecord,
                    <<"last_update", "updated_at", "order_date", "created_at">>), now)
        /\ outcome.order.eta =
              toDateStr(FirstNonAbsent(TheRecord, <<"eta", "estimated_delivery_date">>))
        /\ outcome.order.carrier =
              toStr(FirstNonAbsent(TheRecord, <<"carrier", "delivery_partner">>))
        /\ outcome.order.issue_flag =
              toStr(FirstNonAbsent(TheRecord, <<"issue_flag", "issue_type">>))
        /\ outcome.order.notes =
              toStr(FirstNonAbsent(TheRecord, <<"notes", "order_notes">>))

\* C26: the canonical order of a record is the same at whatever time the
\* record is normalized, records without timestamp columns included.
C26_SameAtAllTimes ==
    Normalized => \A clock \in Times : outcome.order = Transform(TheRecord, clock)

\* C27: the order_id of every canonical order is a non-empty string, and a
\* record whose identifier is a number, zero included, is normalized with
\* the string form of that number as its order_id.
C27_OrderIdRendered ==
    /\ outcome.kind = "found" =>
          /\ outcome.order.order_id.t = "string"
          /\ outcome.order.order_id.v # <<>>
    /\ (RecordAnswered /\ TheRecord.order_id.t = "number") =>
          /\ outcome.kind = "found"
          /\ outcome.order.order_id = Str(Text(TheRecord.order_id))

\* the ISO timestamp of the instant a value denotes, <<>> when it denotes
\* none: an unparsable text, an out-of-range number, an Invalid Date, a value
\* of another type
Instant(val) ==
    CASE val.t = "string" -> DateOfString(val.v)
      [] val.t = "number" -> DateOfNumber(val.v)
      [] val.t = "date" -> val.v
      [] OTHER -> <<>>

IsTimestamp(val) ==
    /\ val.t = "string"
    /\ Len(val.v) = 3
    /\ val.v[2] = "T"

\* the value of the first key of the chain that is populated, undefined when
\* none is
FirstPopulated(rawData, chain) ==
    LET present == {i \in 1..Len(chain) : Populated(rawData[chain[i]])}
    IN  IF present = {} THEN Undefined
        ELSE rawData[chain[CHOOSE i \in present : \A j \in present : i <= j]]

TimestampChain == <<"last_update", "updated_at", "order_date", "created_at">>

IsCalendarDate(val) ==
    /\ val.t = "string"
    /\ Len(val.v) = 1
    /\ \E iso \in {Instant(v) : v \in DateValues} : iso # <<>> /\ val.v = <<iso[1]>>

\* C29: for a record whose eta and estimated_delivery_date are strings, Date
\* objects or numeric epochs (or absent), the lookup does not fail and the
\* canonical eta is a calendar date or absent: absent when the source value
\* denotes no instant.
C29_DateCoercionTotal ==
    (RecordAnswered /\ TheRecord \in DateRecords) =>
        /\ outcome.kind = "found"
        /\ IsCalendarDate(outcome.order.eta) \/ outcome.order.eta = Null
        /\ Instant(etaValue(TheRecord)) = <<>> => outcome.order.eta = Null

\* the optional descriptive fields with the clause each contributes to the
\* formatted text
OptionalFields ==
    {[field |-> "customer_name", clause |-> "Customer: "],
     [field |-> "customer_phone", clause |-> "Phone: "],
     [field |-> "product_id", clause |-> "Product ID: "],
     [field |-> "product_name", clause |-> "Product: "],
     [field |-> "payment_method", clause |-> "Payment method: "],
     [field |-> "order_date", clause |-> "Order date: "],
     [field |-> "refund_amount", clause |-> "Refund amount: $"],
     [field |-> "return_eligible", clause |-> "Return eligible: "]}

\* C30: an optional descriptive field whose column is missing or null in the
\* raw record is absent in the canonical order and contributes no clause to
\* the formatted text.
C30_OptionalOnlyWhenPresent ==
    (Normalized /\ IsToolResult(response)) =>
        \A o \in OptionalFields :
            Absent(TheRecord[o.field]) =>
                /\ outcome.order[o.field] = Null
                /\ ~Includes(response.result.content[1], <<o.clause>>)

\* text begins with prefix
StartsWith(text, prefix) ==
    /\ Len(prefix) <= Len(text)
    /\ SubSeq(text, 1, Len(prefix)) = prefix

\* text ends with suffix
EndsWith(text, suffix) ==
    /\ Len(suffix) <= Len(text)
    /\ SubSeq(text, Len(text) - Len(suffix) + 1, Len(text)) = suffix

OrderClause(order) ==
    <<"Order ">> \o order.order_id.v \o <<" is ">> \o order.status.v

LastUpdatedClause(order) ==
    <<"Last updated: ">> \o ToLocaleString(order.last_update.v)

\* nothing but order_id, status and last_update is set
OnlyRequiredSet(order) ==
    \A f \in OrderFields \ {"order_id", "status", "last_update"} : order[f] = Null

\* C31: the formatted text of a canonical order starts with the clause
\* "Order <order_id> is <status>" and ends with the "Last updated" clause and
\* a period; it is exactly these two clauses when nothing but order_id,
\* status and last_update is set.
C31_FirstAndLastClause ==
    (pc = "done" /\ IsToolResult(response)) =>
        LET text == response.result.content[1]
            order == outcome.order
        IN  /\ StartsWith(text, OrderClause(order) \o <<". ">>)
            /\ EndsWith(text, <<". ">> \o LastUpdatedClause(order) \o <<".">>)
            /\ OnlyRequiredSet(order) =>
                  text = OrderClause(order) \o <<". ">> \o LastUpdatedClause(order) \o <<".">>

C31_Witness ==
    /\ pc = "done"
    /\ IsToolResult(response)
    /\ OnlyRequiredSet(outcome.order)
    /\ outcome.order.status = Str(SHIPPED)
    /\ response.result.content[1] =
          <<"Order ", "T", "R", "-", "1", " is ", "S", "H", "I", "P", "P", "E", "D", ". ",
            "Last updated: ", "toLocaleString(", "2026-01-01", "T", "09:00:00.000Z", ")", ".">>

\* C37: the final attempt alone decides the lookup: an error-free result
\* with a record is found and an error-free empty result is not found,
\* whether or not an earlier attempt failed and was retried.
C37_FinalAttemptDecides ==
    (pc = "done" /\ answers # <<>> /\ ~LastAnswer.failure.present) =>
        /\ (IsRecord(LastAnswer) /\ Truthy(TheRecord.order_id)) => outcome.kind = "found"
        /\ IsEmptyResult(LastAnswer) => outcome.kind = "notfound"

\* the request is suspended inside lookupOrder
LookupRunning == pc \in {"query", "backoff"}

\* C36: a tools/call that has started its lookup is answered: it never makes
\* more than 3 queries or starts more than 2 waits, and it leads to a
\* returned, well-formed envelope, whatever the data source answers.
C36_EveryCallAnswered ==
    /\ [](Len(answers) <= 3 /\ Len(waits) <= 2)
    /\ <>(pc = "done" /\ ~escaped /\ WellFormedEnvelope(response))
    /\ LookupRunning ~> (pc = "done" /\ ~escaped /\ WellFormedEnvelope(response))

C36_Witness ==
    /\ pc = "done"
    /\ Len(answers) = 3
    /\ Len(waits) = 2
    /\ waited = 3000
    /\ \A i \in 1..3 : IsFailure(answers[i])
    /\ WellFormedEnvelope(response)

\* C32: whatever the interleaving of two requests, createClient is called at
\* most once, the cached client is never replaced once set, and without
\* configuration no client is cached and every lookup fails with the
\* configuration error before any query.
C32_ClientMadeOnce ==
    /\ [](created <= 1)
    /\ [](supabaseClient = (IF created = 0 THEN NoClient ELSE 1))
    /\ [][supabaseClient # NoClient => supabaseClient' = supabaseClient]_vars
    /\ [](config = "missing" =>
            /\ supabaseClient = NoClient
            /\ answers = <<>> /\ other.queries = 0
            /\ outcome \in {Pending, Failed(MsgConfig)}
            /\ other.outcome \in {Pending, Failed(MsgConfig)})

C32_Witness ==
    /\ created = 1
    /\ pc = "backoff" /\ Len(answers) = 2
    /\ other.pc = "backoff" /\ other.queries = 2

C32_WitnessMissing ==
    /\ config = "missing"
    /\ outcome = Failed(MsgConfig)
    /\ other.outcome = Failed(MsgConfig)

ResponseFollowsOwnInputs ==
    /\ pc = "done" => response = ResponseTo(request, answers, now)
    /\ other.pc = "done" =>
          \E clock \in Times :
              other.response = ResponseTo(OtherBody(other), other.answers, clock)

\* no step of any request changes the stored orders
StoreUnchanged == [][store' = store]_vars

WellFormedAuthorization(h) ==
    /\ h.t = "string"
    /\ Len(h.parts) = 2
    /\ h.parts[1] = BearerWord
    /\ h.parts[2] # <<>>

\* the request carries the configured secret as its bearer token
CarriesSecret(h) == WellFormedAuthorization(h) /\ h.parts[2] = mcpSecret

OnGatedRoute == http.route \in {McpRoute, LookupOrderRoute}

\* the request is past the gate: its handler runs, or has replied
PastGate ==
    \/ stage = "handler"
    \/ stage = "replied" /\ \E i \in 1..Len(replies) : replies[i].status \notin {401, 403}

\* C35: on /mcp and /lookup-order the handler, the dispatcher and the
\* resolver run only for a request whose Authorization header carries the
\* configured secret as bearer token; a request whose Authorization header is
\* missing or malformed gets one 401 and nothing else, one with a wrong token
\* one 403 and nothing else, and neither makes a query.
C35_GatePrecedesDispatch ==
    OnGatedRoute =>
        /\ (PastGate \/ pc # "idle" \/ answers # <<>>) => CarriesSecret(http.authorization)
        /\ Len(replies) <= 1
        /\ (stage = "replied" /\ ~WellFormedAuthorization(http.authorization)) =>
              /\ replies = <<Reply(401, UnauthorizedBody)>>
              /\ pc = "idle" /\ answers = <<>> /\ outcome = Pending
        /\ (stage = "replied" /\ WellFormedAuthorization(http.authorization)
                /\ ~CarriesSecret(http.authorization)) =>
              /\ Len(replies) = 1 /\ replies[1].status = 403
              /\ pc = "idle" /\ answers = <<>> /\ outcome = Pending

Secrets == {SecretA, SecretB}

\* the request is rejected by the gate whichever of the two secrets is
\* configured
RejectedEitherWay ==
    \A s \in Secrets :
        ~requireAuth(http.route, http.authorization, http.authorization2, s).pass

\* C39: what a request without valid authentication makes the server send
\* and log is the same under two secrets of the same length: the replies and
\* warnings of a rejection on /mcp and /lookup-order, and the reply of
\* GET /debug/env.
C39_SecretNotObservable ==
    \A s \in Secrets :
        /\ (stage = "replied" /\ OnGatedRoute /\ RejectedEitherWay) =>
              LET r == requireAuth(http.route, http.authorization, http.authorization2, s)
              IN  replies = <<r.reply>> /\ logs = r.logs
        /\ (stage = "replied" /\ http.route = DebugEnvRoute) =>
              replies = <<DebugEnv(s)>>

\* the replies alone of a rejection on the gated routes do not depend on the
\* secret
RejectionReplySecretFree ==
    \A s \in Secrets :
        (stage = "replied" /\ OnGatedRoute /\ RejectedEitherWay) =>
            replies = <<requireAuth(http.route, http.authorization,
                                    http.authorization2, s).reply>>

\* the identifier of the REST request as a tools/call of lookup_order
McpTwin(order_id) ==
    Body("object", Str(<<"2.0">>), Str(<<"tools/call">>), Str(<<"a">>),
         Params(LookupTool, Args(order_id)))

\* C38: for the same identifier and the same answers of the data source,
\* /lookup-order rejects the identifier exactly when lookup_order rejects it
\* before the lookup, answers 404 exactly when lookup_order answers
\* OrderNotFound, 500 exactly when it answers InternalError, and on success
\* returns the tool's order_id, status, eta, carrier, tracking_number,
\* last_update and text.
C38_RestAgreesWithMcp ==
    (http.route = LookupOrderRoute /\ stage = "replied" /\ PastGate) =>
        LET rest == replies[1]
            entry == handleMcpRequestEntry(McpTwin(http.order_id))
            mcp == ResponseTo(McpTwin(http.order_id), answers, now)
        IN  /\ rest.status = 400 <=> entry.how # "await"
            /\ (pc = "done" /\ rest.status # 400) =>
                  /\ rest.status = 404 <=> (IsError(mcp) /\ mcp.error.code = OrderNotFound)
                  /\ rest.status = 500 <=> (IsError(mcp) /\ mcp.error.code = InternalError)
                  /\ rest.status = 200 <=> IsSuccess(mcp)
                  /\ rest.status = 200 =>
                        /\ \A k \in CoreKeys : rest.body[k] = mcp.result.structured[k]
                        /\ mcp.result.content = <<rest.body.formatted_text>>

\* an accepted identifier is answered alike by both
RestAgreesOnAccepted ==
    (http.route = LookupOrderRoute /\ stage = "replied" /\ PastGate /\ pc = "done") =>
        LET rest == replies[1]
            mcp == ResponseTo(McpTwin(http.order_id), answers, now)
        IN  /\ rest.status = 404 <=> (IsError(mcp) /\ mcp.error.code = OrderNotFound)
            /\ rest.status = 500 <=> (IsError(mcp) /\ mcp.error.code = InternalError)
            /\ rest.status = 200 <=> IsSuccess(mcp)
            /\ rest.status = 200 =>
                  /\ \A k \in CoreKeys : rest.body[k] = mcp.result.structured[k]
                  /\ mcp.result.content = <<rest.body.formatted_text>>

====
